---- MODULE Spec2Model ----
(***************************************************************************)
(* Model of the Rome API facade (RUSLE2/RomeAPI/api-rome.cpp).             *)
(*                                                                         *)
(* The facade functions are modelled from api-rome.cpp.  The engine, the   *)
(* file system, the catalog and the attribute classes they forward to      *)
(* (FindOrCreate, CEngineBase::FinishUpdates, DoCmdSetStr,                 *)
(* UserCmdResizeDim, AttrGetStr, CRomeCore::Init/Exit, ...) are not part   *)
(* of api-rome.cpp; they are modelled from the specification and from the  *)
(* comments the facade carries about them.                                 *)
(***************************************************************************)
EXTENDS Integers, Sequences, FiniteSets, TLC

(***************************************************************************)
(* Bounds of the model.                                                    *)
(***************************************************************************)
MaxSize == 3
MaxOpens == 2
\* Most locks the caller puts on the engine at a time.
MaxLocks == 2

(***************************************************************************)
(* Program constants.                                                      *)
(***************************************************************************)
RX_TRUE == 1
RX_FALSE == 0
RX_FAILURE == -1

\* The C null pointer, as returned by the pointer- and string-returning calls.
NullPtr == "<null>"
\* Handle value of "no attribute" (CAttr* NULL).
NullAttr == 0
\* The address of the process-wide session object (&App).
AppPtr == "&App"

Threads == {"t1", "t2"}
MainThread == "t1"

Files == {"f1"}
\* The object type of each file (CFileObj::GetObjType()->GetName()).
FileObjType(f) == "T1"

\* Value strings the caller passes, and the value a calculation yields.
Values == {"7", "8"}
CalcValue == "7"

(***************************************************************************)
(* Attribute catalog: name -> listing.  "DIM" is a user-resizable          *)
(* dimension; "A" and "B" are arrays sized from "DIM", "B" is calculated   *)
(* from "A"; "Y" is listed for another object type only; "FDIM" is a       *)
(* dimension the user may not resize; "NOPE" is not listed.                *)
(***************************************************************************)
CatalogNames == {"DIM", "A", "B", "Y", "FDIM"}

GetListing(a) ==
    IF a \notin CatalogNames THEN [listed |-> FALSE, isDim |-> FALSE, canResize |-> FALSE,
                                   dim |-> "", legal |-> {}, deps |-> {}, calc |-> FALSE, derived |-> FALSE]
    ELSE IF a = "DIM" THEN [listed |-> TRUE, isDim |-> TRUE, canResize |-> TRUE,
                            dim |-> "DIM", legal |-> {"T1"}, deps |-> {}, calc |-> FALSE, derived |-> FALSE]
    ELSE IF a = "A" THEN [listed |-> TRUE, isDim |-> FALSE, canResize |-> FALSE,
                          dim |-> "DIM", legal |-> {"T1"}, deps |-> {"B"}, calc |-> TRUE, derived |-> FALSE]
    ELSE IF a = "B" THEN [listed |-> TRUE, isDim |-> FALSE, canResize |-> FALSE,
                          dim |-> "DIM", legal |-> {"T1"}, deps |-> {}, calc |-> TRUE, derived |-> TRUE]
    ELSE IF a = "FDIM" THEN [listed |-> TRUE, isDim |-> TRUE, canResize |-> FALSE,
                             dim |-> "FDIM", legal |-> {"T1"}, deps |-> {}, calc |-> FALSE, derived |-> FALSE]
    ELSE [listed |-> TRUE, isDim |-> FALSE, canResize |-> FALSE,
          dim |-> "DIM", legal |-> {"T2"}, deps |-> {}, calc |-> TRUE, derived |-> FALSE]

IsValidObject(a, objType) == objType \in GetListing(a).legal

\* The attributes of a file that share dimension d (d itself included).
SharingDim(d) == {a \in CatalogNames : GetListing(a).dim = d}

(***************************************************************************)
(* The "world" the facade forwards to: attribute instances of each file,   *)
(* the handle counter and the engine's pending-update stack.               *)
(*   id[f][a]   handle of the live instance of a in f, NullAttr if none    *)
(*   vals[f][a] the flat value store of that instance                      *)
(*   next       the next fresh handle                                      *)
(*   stack      the engine's pending recalculation tasks, <<f, a>> each    *)
(***************************************************************************)
\* The element of a one-element set.  Only({e : x \in {v}}) is e with x
\* naming the value of v.
Only(S) == CHOOSE x \in S : TRUE

NoAttrs == [a \in CatalogNames |-> NullAttr]
NoVals == [a \in CatalogNames |-> <<>>]

\* A value store of n rows, each holding v.
RECURSIVE Fill(_, _)
Fill(n, v) == IF n <= 0 THEN <<>> ELSE Append(Fill(n - 1, v), v)

\* Append a task unless the stack already holds it.
PushTask(stack, task) ==
    IF \E i \in 1..Len(stack) : stack[i] = task THEN stack ELSE Append(stack, task)

RECURSIVE PushTasks(_, _, _)
PushTasks(stack, f, names) ==
    IF names = {} THEN stack
    ELSE LET a == CHOOSE n \in names : TRUE
         IN PushTasks(PushTask(stack, <<f, a>>), f, names \ {a})

\* The value a calculation function gives attribute a of file f.
CalcVals(W, f, a) ==
    IF a = "B" /\ W.id[f]["A"] # NullAttr
        /\ Len(W.vals[f]["A"]) = Len(W.vals[f][a])
    THEN W.vals[f]["A"]
    ELSE Fill(Len(W.vals[f][a]), CalcValue)

\* Run one pending task: recalculate the attribute it is keyed to.
RunTask(W, task) ==
    LET f == task[1]
        a == task[2]
    IN IF W.id[f][a] = NullAttr THEN W
       ELSE [W EXCEPT !.vals[f][a] = CalcVals(W, f, a)]

RECURSIVE RunStack(_)
RunStack(W) ==
    IF W.stack = <<>> THEN W
    ELSE RunStack(RunTask([W EXCEPT !.stack = Tail(W.stack)], Head(W.stack)))

\* CEngineBase::IsLocked
IsLocked(W) == W.lock > 0

\* CEngineBase::FinishUpdates: run the update stack until it is empty.  After
\* a fatal internal error the engine runs nothing and the stack stays as it is;
\* while the engine is locked recalculation is suppressed and nothing is run.
FinishUpdates(W) == IF W.fatal \/ IsLocked(W) THEN W ELSE RunStack(W)

\* CEngineBase::LockUpdate: one more lock.
LockUpdate(W) == [W EXCEPT !.lock = @ + 1]

\* CEngineBase::UnlockUpdate: one lock less; running is allowed again once the
\* count is back at zero.
UnlockUpdate(W) == [W EXCEPT !.lock = IF @ > 0 THEN @ - 1 ELSE 0]

IsFinished(W) == W.stack = <<>>

\* Construct the instance of a in f (the caller has checked it is absent).
CreateAttr(W, a, f) ==
    Only({ Only({ [W2 EXCEPT !.stack = IF GetListing(a).calc
                                      THEN PushTask(W2.stack, <<f, a>>) ELSE W2.stack]
                  : W2 \in {[W1 EXCEPT !.id[f][a] = W1.next,
                                       !.vals[f][a] = Fill(IF a = d THEN 1 ELSE Len(W1.vals[f][d]),
                                                           CalcValue),
                                       !.next = W1.next + 1]} })
           \* W1: the dimension instance is found or created first
           : W1 \in {IF a # GetListing(a).dim /\ W.id[f][GetListing(a).dim] = NullAttr
                     THEN [W EXCEPT !.id[f][GetListing(a).dim] = W.next,
                                    !.vals[f][GetListing(a).dim] = Fill(1, CalcValue),
                                    !.next = W.next + 1]
                     ELSE W},
             d \in {GetListing(a).dim} })

\* FindOrCreate(pszAttr, pFile): the unique instance of a in f, created on
\* first reference; NullAttr when a is not listed or f has the wrong type.
FindOrCreate(W, a, f) ==
    IF ~GetListing(a).listed THEN [w |-> W, p |-> NullAttr]
    ELSE IF ~IsValidObject(a, FileObjType(f)) THEN [w |-> W, p |-> NullAttr]
    ELSE IF W.id[f][a] # NullAttr THEN [w |-> W, p |-> W.id[f][a]]
    ELSE Only({ [w |-> W2, p |-> W2.id[f][a]] : W2 \in {CreateAttr(W, a, f)} })

InsertAt(s, i, v) == SubSeq(s, 1, i) \o <<v>> \o SubSeq(s, i + 1, Len(s))
RemoveAt(s, i) == SubSeq(s, 1, i) \o SubSeq(s, i + 2, Len(s))

\* UserCmdResizeDim(pDim, "", nIndex, bDelete): insert a row before index
\* nIndex, or delete row nIndex, in dimension d of file f and in every live
\* attribute sized from it.  d = "" stands for a NULL dimension pointer.
UserCmdResizeDim(W, f, d, nIndex, bDelete) ==
    IF d = "" \/ W.id[f][d] = NullAttr THEN [w |-> W, ret |-> RX_FAILURE]
    ELSE LET n == Len(W.vals[f][d])
             ok == IF bDelete THEN nIndex >= 0 /\ nIndex < n /\ n > 1
                   ELSE nIndex >= 0 /\ nIndex <= n
             newVals == [a \in CatalogNames |->
                           IF a \in SharingDim(d) /\ W.id[f][a] # NullAttr
                           THEN IF bDelete THEN RemoveAt(W.vals[f][a], nIndex)
                                ELSE InsertAt(W.vals[f][a], nIndex, CalcValue)
                           ELSE W.vals[f][a]]
             stale == {a \in SharingDim(d) : GetListing(a).derived /\ W.id[f][a] # NullAttr}
         IN IF ~ok THEN [w |-> W, ret |-> RX_FAILURE]
            ELSE [w |-> [W EXCEPT !.vals[f] = newVals,
                                  !.stack = PushTasks(W.stack, f, stale)],
                  ret |-> RX_TRUE]

\* Is v a legal value string for attribute a?
IsValidValue(a, v) == v \in Values \cup {CalcValue}

\* DoCmdSetStr(pAttr, pszValue, nIndex, ...): set one value of a live attribute;
\* 1 = changed, 0 = unchanged, -1 = failure.  Dependents become stale.
DoCmdSetStr(W, f, a, v, nIndex) ==
    IF nIndex < 0 \/ nIndex >= Len(W.vals[f][a]) THEN [w |-> W, ret |-> RX_FAILURE]
    ELSE IF ~IsValidValue(a, v) THEN [w |-> W, ret |-> RX_FAILURE]
    ELSE IF W.vals[f][a][nIndex + 1] = v THEN [w |-> W, ret |-> RX_FALSE]
    ELSE [w |-> [W EXCEPT !.vals[f][a][nIndex + 1] = v,
                          !.stack = PushTasks(W.stack, f, GetListing(a).deps)],
          ret |-> RX_TRUE]

\* AttrGetStr(pAttr, nIndex, nVariant, pszUnit): the value string, NULL when
\* the index is out of range.
AttrGetStr(W, f, a, nIndex) ==
    IF nIndex < 0 \/ nIndex >= Len(W.vals[f][a]) THEN NullPtr
    ELSE W.vals[f][a][nIndex + 1]

\* CAttr::IsValidUnits(pszUnit)
IsValidUnits(unit) == unit \in {"#U_TEMPLATE", ""}

(***************************************************************************)
(* State.                                                                  *)
(***************************************************************************)
VARIABLES
    flags,          \* session flags of App: DLLSTATE_INITROME, DLLSTATE_CLOSED
    commandLine,    \* App.m_sCommandLine
    initCount,      \* number of sessions CRomeCore::Init has created
    appHeld,        \* the caller has obtained the session handle from RomeInit
    dbOpen,         \* the database connection is open
    useThreadIds,   \* the build has USE_ROMEAPI_THREADIdS set
    nThreadId,      \* App.m_nThreadId, "none" before RomeInit has stored it
    fileValid,      \* CFileObj::IsValid(pFile), per file
    romeRefs,       \* pFile->m_nRomeRefs, per file
    opens,          \* number of RomeFilesOpen calls that returned a file
    attrId,         \* handle of each live attribute instance, per file
    attrVals,       \* value store of each live attribute instance, per file
    nextId,         \* next fresh attribute handle
    stack,          \* the engine's pending-update stack
    engineFatal,    \* the engine has met a fatal internal error and runs no update
    lockCount,      \* the engine's update lock count (CEngineBase::LockUpdate)
    lastError,      \* thread-local string "RomeGetLastError", per thread
    findOpen,       \* a find result set is open
    findCursor,     \* index of the record the find result set is positioned at
    call,           \* the last API call that returned: its arguments and result
    pc,             \* position of each thread inside RomeInit
    initArgs,       \* pszArgs of each thread's RomeInit call in progress
    initCS,         \* holder of RomeInit's critical section
    apiLock,        \* holder of the call-level lock (ROME_API_LOCK)
    apiDepth,       \* number of times the holder has entered the call-level lock
    pending         \* arguments and locals of each thread's file call in progress

affinityVars == <<useThreadIds, nThreadId>>
sessionVars == <<flags, commandLine, initCount, appHeld, dbOpen, affinityVars>>
fileVars == <<fileValid, romeRefs, opens>>
worldVars == <<attrId, attrVals, nextId, stack, engineFatal, lockCount>>
threadVars == <<pc, initArgs, initCS, apiLock, apiDepth, pending>>
findVars == <<findOpen, findCursor>>
vars == <<flags, commandLine, initCount, appHeld, dbOpen, useThreadIds, nThreadId, fileValid, romeRefs, opens,
          attrId, attrVals, nextId, stack, engineFatal, lockCount, lastError, findOpen,
          findCursor,
          call, pc, initArgs, initCS, apiLock, apiDepth, pending>>

World == [id |-> attrId, vals |-> attrVals, next |-> nextId, stack |-> stack,
          fatal |-> engineFatal, lock |-> lockCount]

SetWorld(W) ==
    /\ attrId' = W.id
    /\ attrVals' = W.vals
    /\ nextId' = W.next
    /\ engineFatal' = W.fatal
    /\ lockCount' = W.lock
    /\ stack' = W.stack

HasFlag(fl, f) == f \in fl

\* "no error text was set by this call"
NoErr == "<none>"

(***************************************************************************)
(* RomeSetLastError: the new content of the thread's error string.         *)
(***************************************************************************)
\* Faulty variant: the disabled branch of the source, in which a text with
\* no prefix is put in front of the current string instead of replacing it.
SetLastErrorText_Affix(sInfo, pszInfo) ==
    IF pszInfo = NullPtr THEN ""
    ELSE IF pszInfo # "" /\ Head(pszInfo) = "+"
         THEN IF sInfo # "" THEN (sInfo \o "\n") \o Tail(pszInfo) ELSE Tail(pszInfo)
    ELSE IF pszInfo # "" /\ Head(pszInfo) = "-"
         THEN IF sInfo # "" THEN Tail(pszInfo) \o ("\n" \o sInfo) ELSE Tail(pszInfo)
    ELSE IF pszInfo # "" /\ Head(pszInfo) = "="
         THEN Tail(pszInfo)
    ELSE IF sInfo # "" THEN pszInfo \o ("\n" \o sInfo) ELSE pszInfo

SetLastErrorText(sInfo, pszInfo) ==
    IF pszInfo = NullPtr THEN ""
    ELSE IF pszInfo # "" /\ Head(pszInfo) = "+"
         THEN IF sInfo # "" THEN (sInfo \o "\n") \o Tail(pszInfo) ELSE Tail(pszInfo)
    ELSE IF pszInfo # "" /\ Head(pszInfo) = "-"
         THEN IF sInfo # "" THEN Tail(pszInfo) \o ("\n" \o sInfo) ELSE Tail(pszInfo)
    ELSE IF pszInfo # "" /\ Head(pszInfo) = "="
         THEN Tail(pszInfo)
    ELSE pszInfo

\* Faulty variant: one error string shared by all threads.
RomeThreadSetNamedString_Shared(buf, t, sInfo) == [u \in Threads |-> sInfo]

\* RomeThreadSetNamedString("RomeGetLastError", sInfo) called on thread t:
\* store sInfo as the calling thread's string.
RomeThreadSetNamedString(buf, t, sInfo) == [buf EXCEPT ![t] = sInfo]

\* The ASSERT_OR_SETERROR_AND_RETURN_* macros: record msg as thread t's error.
SetError(t, msg) ==
    lastError' = IF msg = NoErr THEN lastError
                 ELSE RomeThreadSetNamedString(lastError, t,
                                               SetLastErrorText(lastError[t], msg))

\* The record of a returned call: the calling thread, the arguments, the result.
Returned(t, op, f, a, v, i, u, ret, str, ptr, err, escaped) ==
    [thread |-> t, op |-> op, file |-> f, attr |-> a, val |-> v, idx |-> i, unit |-> u,
     ret |-> ret, str |-> str, ptr |-> ptr, errSet |-> (err # NoErr), escaped |-> escaped]

\* No file call in progress.
NoPending == [file |-> NullPtr, attr |-> "", val |-> "", idx |-> 0, unit |-> "", refs |-> 0]

NoCall == Returned(MainThread, "", "", "", "", 0, "", 0, "", NullAttr, NoErr, FALSE)

(***************************************************************************)
(* Session functions.                                                      *)
(***************************************************************************)
MaxErrLen == 60

\* Command lines the caller passes to RomeInit; BadArgs has an unbalanced quote.
BadArgs == "\""
InitArgsSet == {"", "/UnitSystem=US", BadArgs}

\* CRomeCore::ParseArgs(pszArgs, aCommandLine)
ParseArgs(args) == args # BadArgs

\* BOOL bSameThread = (m_nThreadId == nCurThreadId);
SameThread(t) == nThreadId = t

ThreadMsg(fn) == fn \o ": Rome API function called on different thread from RomeInit()."

\* #if USE_ROMEAPI_THREADIdS ... ASSERT_OR_SETERROR_AND_RETURN_*(!bSameThread, ...):
\* the call returns with this text unless !bSameThread holds.  NoErr when
\* the test passes or is not compiled in.
ThreadCheck(fn, t) ==
    IF useThreadIds /\ SameThread(t) THEN ThreadMsg(fn) ELSE NoErr

\* CRomeCore::Exit(): close every file and mark the session closed.
CoreExit ==
    /\ flags' = flags \cup {"DLLSTATE_CLOSED"}
    /\ fileValid' = [f \in Files |-> FALSE]
    /\ romeRefs' = [f \in Files |-> 0]
    /\ attrId' = [f \in Files |-> NoAttrs]
    /\ attrVals' = [f \in Files |-> NoVals]
    /\ stack' = <<>>
    /\ findOpen' = FALSE
    /\ findCursor' = -1
    /\ dbOpen' = FALSE

\* A thread is between API calls and the call-level lock can be taken.
Idle(t) == pc[t] = "idle"
LockFree(t) == apiLock \in {"none", t}

\* Faulty variant: RomeInit without its critical section.
InitCriticalSectionIgnored(cs, t) == TRUE

\* RFX_CRITICAL_SECTION() on entry to RomeInit: can thread t enter?
InitCriticalSectionFree(cs, t) == cs = "none"

\* bExited = pApp->HasFlag(DLLSTATE_CLOSED)
Exited(fl) == HasFlag(fl, "DLLSTATE_CLOSED")

\* RomeInit, the call: thread t enters the function with pszArgs = args.
RomeInitCall(t, args) ==
    /\ Idle(t)
    /\ args = BadArgs => Len(lastError[t]) < MaxErrLen
    /\ pc' = [pc EXCEPT ![t] = "enter"]
    /\ initArgs' = [initArgs EXCEPT ![t] = args]
    /\ UNCHANGED <<sessionVars, fileVars, worldVars, lastError, findVars, call,
                   initCS, apiLock, apiDepth, pending>>

\* RomeInit: RFX_CRITICAL_SECTION().
RomeInitEnter(t) ==
    /\ pc[t] = "enter"
    /\ InitCriticalSectionFree(initCS, t)
    /\ initCS' = t
    /\ pc' = [pc EXCEPT ![t] = "check"]
    /\ UNCHANGED <<sessionVars, fileVars, worldVars, lastError, findVars, call,
                   initArgs, apiLock, apiDepth, pending>>

InitReturn(t, ptr, err) ==
    /\ pc' = [pc EXCEPT ![t] = "idle"]
    /\ initCS' = IF initCS = t THEN "none" ELSE initCS
    /\ apiLock' = IF apiLock = t THEN "none" ELSE apiLock
    /\ apiDepth' = IF apiLock = t THEN 0 ELSE apiDepth
    /\ SetError(t, err)
    /\ appHeld' = (appHeld \/ ptr = AppPtr)
    /\ call' = Returned(t, "RomeInit", "", "", initArgs[t], 0, "", 0, ptr, NullAttr, err, FALSE)
    /\ UNCHANGED <<initArgs, pending>>

\* RomeInit: the test of DLLSTATE_CLOSED and DLLSTATE_INITROME.
RomeInitCheck(t) ==
    /\ pc[t] = "check"
    /\ IF Exited(flags)
       THEN /\ InitReturn(t, NullPtr, "RomeInit: RomeExit() has already been called.")
            /\ UNCHANGED <<flags, commandLine, initCount, dbOpen, affinityVars>>
       ELSE IF HasFlag(flags, "DLLSTATE_INITROME")
       THEN /\ InitReturn(t, AppPtr, NoErr)
            /\ UNCHANGED <<flags, commandLine, initCount, dbOpen, affinityVars>>
       ELSE /\ pc' = [pc EXCEPT ![t] = "lock"]
            /\ UNCHANGED <<sessionVars, lastError, call, initArgs, initCS, apiLock, apiDepth, pending>>
    /\ UNCHANGED <<fileVars, worldVars, findVars>>

\* RomeInit: ROME_API_LOCK().
RomeInitLock(t) ==
    /\ pc[t] = "lock"
    /\ apiLock = "none"
    /\ apiLock' = t
    /\ apiDepth' = 1
    /\ pc' = [pc EXCEPT ![t] = "body"]
    /\ UNCHANGED <<sessionVars, fileVars, worldVars, lastError, findVars, call,
                   initArgs, initCS, pending>>

\* RomeInit: store the command line, parse it and run CRomeCore::Init, which
\* creates the session (coreOk) or fails.
RomeInitBody(t, coreOk) ==
    /\ pc[t] = "body"
    /\ commandLine' = initArgs[t]
    /\ IF ~ParseArgs(initArgs[t])
       THEN /\ InitReturn(t, NullPtr, "-RomeInit: failed to parse command line arguments.")
            /\ UNCHANGED <<flags, initCount, nThreadId>>
       ELSE IF coreOk
       THEN /\ flags' = flags \cup {"DLLSTATE_INITROME"}
            /\ initCount' = initCount + 1
            /\ nThreadId' = IF useThreadIds THEN t ELSE nThreadId
            /\ InitReturn(t, AppPtr, NoErr)
       ELSE /\ InitReturn(t, NullPtr, NoErr)
            /\ nThreadId' = IF useThreadIds THEN t ELSE nThreadId
            /\ UNCHANGED <<flags, initCount>>
    /\ UNCHANGED <<dbOpen, useThreadIds, fileVars, worldVars, findVars>>

\* RomeExit(pApp)
RomeExit(t, pApp) ==
    /\ Idle(t) /\ LockFree(t)
    /\ pApp = AppPtr => appHeld
    /\ IF pApp = NullPtr
       THEN /\ SetError(t, "RomeExit: NULL Rome app pointer.")
            /\ call' = Returned(t, "RomeExit", "", "", "", 0, "", RX_FALSE, "", NullAttr,
                                "RomeExit: NULL Rome app pointer.", FALSE)
            /\ UNCHANGED <<flags, dbOpen, fileValid, romeRefs, worldVars, findVars>>
       ELSE IF Exited(flags)
       THEN /\ SetError(t, "RomeExit: RomeExit() has already been called.")
            /\ call' = Returned(t, "RomeExit", "", "", "", 0, "", RX_FALSE, "", NullAttr,
                                "RomeExit: RomeExit() has already been called.", FALSE)
            /\ UNCHANGED <<flags, dbOpen, fileValid, romeRefs, worldVars, findVars>>
       ELSE /\ CoreExit
            /\ SetError(t, NoErr)
            /\ call' = Returned(t, "RomeExit", "", "", "", 0, "", RX_TRUE, "", NullAttr, NoErr, FALSE)
            /\ UNCHANGED <<nextId, engineFatal, lockCount>>
    /\ UNCHANGED <<commandLine, initCount, appHeld, affinityVars, opens, threadVars>>

\* RomeGetLastError(pApp): the thread's error string, NULL once closed.
RomeGetLastError(t, pApp) ==
    /\ Idle(t)
    /\ pApp = AppPtr => appHeld
    \* BOOL bSameThread = (App.m_nThreadId = nCurThreadId): the thread id is
    \* stored, and bSameThread is TRUE as no thread id is 0.
    /\ nThreadId' = IF useThreadIds /\ ~Exited(flags) THEN t ELSE nThreadId
    /\ call' = Returned(t, "RomeGetLastError", "", "", "", 0, "", 0,
                        IF Exited(flags) THEN NullPtr
                        ELSE IF useThreadIds
                        THEN ThreadMsg("RomeGetLastError")
                        ELSE lastError[t],
                        NullAttr, NoErr, FALSE)
    /\ UNCHANGED <<flags, commandLine, initCount, appHeld, dbOpen, useThreadIds, fileVars,
                   worldVars, lastError, findVars, threadVars>>

ErrTexts == {"a", NullPtr}

\* RomeSetLastError(pApp, pszInfo): the closed test is made for a non-NULL
\* pApp only.
SetLastErrorRefused(pApp, fl) == pApp # NullPtr /\ Exited(fl)

RomeSetLastError(t, pApp, pszInfo) ==
    /\ Idle(t)
    /\ pApp = AppPtr => appHeld
    /\ IF SetLastErrorRefused(pApp, flags)
       THEN /\ call' = Returned(t, "RomeSetLastError", "", "", pszInfo, 0, "", RX_FALSE, "",
                                NullAttr, NoErr, FALSE)
            /\ UNCHANGED lastError
       ELSE /\ lastError' = RomeThreadSetNamedString(lastError, t,
                                                     SetLastErrorText(lastError[t], pszInfo))
            /\ call' = Returned(t, "RomeSetLastError", "", "", pszInfo, 0, "", RX_TRUE, "",
                                NullAttr, NoErr, FALSE)
    /\ UNCHANGED <<sessionVars, fileVars, worldVars, findVars, threadVars>>

\* RomeSetMessageCallback(pApp, call_back): no try block surrounds the body;
\* fault = an internal fault is raised inside pApp->SetOnMessage().
RomeSetMessageCallback(t, pApp, fault) ==
    /\ Idle(t)
    /\ pApp = AppPtr => appHeld
    /\ LET err == IF pApp = NullPtr THEN "RomeSetMessageCallback: NULL Rome app pointer."
                  ELSE IF Exited(flags)
                  THEN "RomeSetMessageCallback: RomeExit() has already been called."
                  ELSE NoErr
       IN /\ SetError(t, err)
          /\ call' = IF err # NoErr
                     THEN Returned(t, "RomeSetMessageCallback", "", "", "", 0, "", RX_FAILURE, "",
                                   NullAttr, err, FALSE)
                     ELSE IF fault
                     THEN Returned(t, "RomeSetMessageCallback", "", "", "", 0, "", 0, "",
                                   NullAttr, err, TRUE)
                     ELSE Returned(t, "RomeSetMessageCallback", "", "", "", 0, "", RX_TRUE, "",
                                   NullAttr, err, FALSE)
    /\ UNCHANGED <<sessionVars, fileVars, worldVars, findVars, threadVars>>

\* RomeDatabaseOpen(pDatabase, pszDatabase)
RomeDatabaseOpen(t) ==
    /\ Idle(t) /\ LockFree(t)
    /\ appHeld
    /\ LET err == IF Exited(flags) THEN "RomeDatabaseOpen: RomeExit() has already been called."
                  ELSE IF ThreadCheck("RomeDatabaseOpen", t) # NoErr
                  THEN ThreadCheck("RomeDatabaseOpen", t)
                  ELSE IF \E f \in Files : fileValid[f]
                  THEN "RomeDatabaseOpen: files still remaining open."
                  ELSE NoErr
       IN /\ SetError(t, err)
          /\ dbOpen' = IF err = NoErr THEN TRUE ELSE dbOpen
          /\ call' = Returned(t, "RomeDatabaseOpen", "", "", "", 0, "",
                              IF Exited(flags) \/ ThreadCheck("RomeDatabaseOpen", t) # NoErr
                              THEN RX_FAILURE
                              ELSE IF err # NoErr THEN RX_FALSE ELSE RX_TRUE,
                              "", NullAttr, err, FALSE)
    /\ UNCHANGED <<flags, commandLine, initCount, appHeld, affinityVars, fileVars, worldVars,
                   findVars, threadVars>>

\* The engine meets a fatal internal error: from now on it runs no update.
EngineFatalError ==
    /\ ~engineFatal
    /\ engineFatal' = TRUE
    /\ UNCHANGED <<sessionVars, fileVars, attrId, attrVals, nextId, stack, lockCount,
                   lastError, findVars, call, threadVars>>

\* RomeEngineFinishUpdates(pEngine): the result of FinishUpdates() is not
\* looked at; fault = an internal fault is raised inside it.
RomeEngineFinishUpdates(t, fault) ==
    /\ Idle(t) /\ LockFree(t)
    /\ appHeld
    /\ \E err \in {IF Exited(flags)
                    THEN "RomeEngineFinishUpdates: RomeExit() has already been called."
                    ELSE IF fault THEN "RomeEngineFinishUpdates: exception."
                    ELSE NoErr} :
          /\ SetError(t, err)
          /\ SetWorld(IF err = NoErr THEN FinishUpdates(World) ELSE World)
          /\ call' = Returned(t, "RomeEngineFinishUpdates", "", "", "", 0, "",
                              IF err = NoErr THEN RX_TRUE ELSE RX_FALSE, "", NullAttr, err,
                              FALSE)
    /\ UNCHANGED <<sessionVars, fileVars, findVars, threadVars>>

\* RomeEngineLockUpdate(pEngine): the new lock count, RX_FAILURE on error.
RomeEngineLockUpdate(t) ==
    /\ Idle(t) /\ LockFree(t)
    /\ appHeld
    /\ lockCount < MaxLocks
    /\ \E err \in {IF Exited(flags)
                    THEN "RomeEngineLockUpdate: RomeExit() has already been called."
                    ELSE ThreadCheck("RomeEngineLockUpdate", t)} :
          /\ SetError(t, err)
          /\ SetWorld(IF err = NoErr THEN LockUpdate(World) ELSE World)
          /\ call' = Returned(t, "RomeEngineLockUpdate", "", "", "", 0, "",
                              IF err = NoErr THEN LockUpdate(World).lock ELSE RX_FAILURE,
                              "", NullAttr, err, FALSE)
    /\ UNCHANGED <<sessionVars, fileVars, findVars, threadVars>>

\* RomeEngineUnlockUpdate(pEngine): the new lock count, RX_FAILURE on error.
RomeEngineUnlockUpdate(t) ==
    /\ Idle(t) /\ LockFree(t)
    /\ appHeld
    /\ lockCount > 0
    /\ \E err \in {IF Exited(flags)
                    THEN "RomeEngineUnlockUpdate: RomeExit() has already been called."
                    ELSE ThreadCheck("RomeEngineUnlockUpdate", t)} :
          /\ SetError(t, err)
          /\ SetWorld(IF err = NoErr THEN UnlockUpdate(World) ELSE World)
          /\ call' = Returned(t, "RomeEngineUnlockUpdate", "", "", "", 0, "",
                              IF err = NoErr THEN UnlockUpdate(World).lock ELSE RX_FAILURE,
                              "", NullAttr, err, FALSE)
    /\ UNCHANGED <<sessionVars, fileVars, findVars, threadVars>>

(***************************************************************************)
(* File functions.                                                         *)
(***************************************************************************)
\* The argument tests shared by the file functions, in source order; fn is
\* the name the function uses in its messages.
FileCheck(fn, f) ==
    IF Exited(flags) THEN fn \o ": RomeExit() has already been called."
    ELSE IF ~fileValid[f] THEN fn \o ": invalid file pointer."
    ELSE IF romeRefs[f] < 1 THEN fn \o ": invalid file reference count."
    ELSE NoErr

\* The caller holds a file pointer only after RomeFilesOpen has returned one.
Obtained(f) == opens > 0

\* A file pointer whose Core is not the session object App.
ForeignFile == "fx"

\* bValidApp = (&pFile->Core == &App)
ValidApp(f) == f # ForeignFile

\* What ASSERT_OR_SETERROR_AND_RETURN_NULL returns from a function whose
\* result is an integer.
RETURN_NULL == 0

\* The argument tests of RomeFileGetAttrSize and RomeFileGetAttrDimSize, in
\* source order: the tests of the session object and of the closed flag
\* return NULL, the tests that follow return RX_FAILURE.
SizeArgCheck(fn, f) ==
    IF ~ValidApp(f) THEN [ret |-> RETURN_NULL, err |-> fn \o ": invalid file pointer."]
    ELSE IF Exited(flags)
    THEN [ret |-> RETURN_NULL, err |-> fn \o ": RomeExit() has already been called."]
    ELSE [ret |-> RX_FAILURE, err |-> FileCheck(fn, f)]

\* FilesetOpen(Core, pszDiskName, nFlags): the fileset on disk could be opened.
\* What a fileset holds lies outside the model.
FilesetOpen(found) == found

\* RomeFilesOpen: the file object the branch taken for the magic prefix of
\* pszFullname gives; TRUE = pFO is not NULL.  After a fileset has been opened
\* the function returns NULL.
OpenByPrefix(prefix, found) ==
    IF prefix = "#FILESET:"
    THEN IF ~FilesetOpen(found) THEN FALSE ELSE FALSE
    ELSE found

\* RomeFilesOpen(pFiles, pszFullname, nFlags); prefix = the magic prefix of
\* pszFullname, "" when it has none; found = the backing store, the XML file
\* or the fileset holds what is named (OpenOrCreateFile, ImportObject,
\* ImportObjectXML return the file, FilesetOpen returns TRUE).
\* The call record shows the prefix (val), whether the open that was asked for
\* succeeded (ret) and the pointer returned (str).
RomeFilesOpen(t, f, found, prefix) ==
    /\ Idle(t) /\ LockFree(t)
    /\ appHeld
    /\ opens < MaxOpens
    /\ LET err == IF Exited(flags) THEN "RomeFilesOpen: RomeExit() has already been called."
                  ELSE IF ThreadCheck("RomeFilesOpen", t) # NoErr
                  THEN ThreadCheck("RomeFilesOpen", t)
                  ELSE IF ~dbOpen THEN "RomeFilesOpen: no database open."
                  ELSE NoErr
           pFO == err = NoErr /\ OpenByPrefix(prefix, found)
       IN /\ SetError(t, err)
          /\ fileValid' = IF pFO THEN [fileValid EXCEPT ![f] = TRUE] ELSE fileValid
          /\ romeRefs' = IF pFO THEN [romeRefs EXCEPT ![f] = @ + 1] ELSE romeRefs
          /\ opens' = IF pFO THEN opens + 1 ELSE opens
          /\ call' = Returned(t, "RomeFilesOpen", f, "", prefix, 0, "",
                              IF err = NoErr /\ found THEN RX_TRUE ELSE RX_FALSE,
                              IF pFO THEN f ELSE NullPtr, NullAttr, err, FALSE)
    /\ UNCHANGED <<sessionVars, worldVars, findVars, threadVars>>

\* RomeFilesAdd(pFiles, pszObjType, pszFullname); created = NewFileObj returns
\* a new file object.  The function returns the pointer as NewFileObj made
\* it: m_nRomeRefs is not touched.
RomeFilesAdd(t, f, created) ==
    /\ Idle(t) /\ LockFree(t)
    /\ appHeld
    /\ opens < MaxOpens
    /\ ~fileValid[f]
    /\ LET err == IF Exited(flags) THEN "RomeFilesAdd: RomeExit() has already been called."
                  ELSE ThreadCheck("RomeFilesAdd", t)
           pNewFile == err = NoErr /\ created
       IN /\ SetError(t, err)
          /\ fileValid' = IF pNewFile THEN [fileValid EXCEPT ![f] = TRUE] ELSE fileValid
          /\ opens' = IF pNewFile THEN opens + 1 ELSE opens
          /\ call' = Returned(t, "RomeFilesAdd", f, "", "", 0, "", 0,
                              IF pNewFile THEN f ELSE NullPtr, NullAttr, err, FALSE)
    /\ UNCHANGED <<sessionVars, romeRefs, worldVars, findVars, threadVars>>

\* CFileObj::CloseView(CVF_NOSAVE): release the file and everything it owns
\* once no API reference is left.
RemoveTasks(st, f) == SelectSeq(st, LAMBDA task : task[1] # f)

\* RomeFileClose(pFile); fault = an internal fault is raised after the lock
\* is taken.
RomeFileClose(t, f, fault) ==
    /\ Idle(t) /\ LockFree(t)
    /\ Obtained(f)
    /\ LET pre == IF FileCheck("RomeFileClose", f) # NoErr THEN FileCheck("RomeFileClose", f)
                  ELSE ThreadCheck("RomeFileClose", t)
           err == IF pre # NoErr THEN pre
                  ELSE IF fault THEN "RomeFileClose: exception." ELSE NoErr
           refs == IF pre = NoErr THEN romeRefs[f] - 1 ELSE romeRefs[f]
           release == err = NoErr /\ refs = 0
       IN /\ SetError(t, err)
          /\ romeRefs' = [romeRefs EXCEPT ![f] = refs]
          /\ fileValid' = IF release THEN [fileValid EXCEPT ![f] = FALSE] ELSE fileValid
          /\ attrId' = IF release THEN [attrId EXCEPT ![f] = NoAttrs] ELSE attrId
          /\ attrVals' = IF release THEN [attrVals EXCEPT ![f] = NoVals] ELSE attrVals
          /\ stack' = IF release THEN RemoveTasks(stack, f) ELSE stack
          /\ call' = Returned(t, "RomeFileClose", f, "", "", 0, "",
                              IF err # NoErr THEN RX_FAILURE
                              ELSE IF release THEN RX_TRUE ELSE RX_FALSE,
                              "", NullAttr, err, FALSE)
    /\ UNCHANGED <<sessionVars, opens, nextId, engineFatal, lockCount, findVars, threadVars>>

\* CFileSys::GetFile(nItem): the open file at position nItem, NULL when the
\* position is out of range.
GetFile(nItem) ==
    IF nItem = 0 /\ fileValid["f1"] THEN "f1" ELSE NullPtr

\* Faulty variant: the pointer is returned without counting the reference.
GetItem_NoAddRef(nRomeRefs) == nRomeRefs

\* RomeFilesGetItem: pFile->m_nRomeRefs++
GetItem_AddRef(nRomeRefs) == nRomeRefs + 1

\* RomeFilesGetItem(pFiles, nItem)
RomeFilesGetItem(t, nItem) ==
    /\ Idle(t) /\ LockFree(t)
    /\ appHeld
    /\ opens < MaxOpens
    /\ \E err \in {IF Exited(flags) THEN "RomeFilesGetItem: RomeExit() has already been called."
                    ELSE IF nItem < 0
                    THEN "RomeFilesGetItem: invalid (negative) item index."
                    ELSE NoErr} :
       \E pFile \in {IF err = NoErr THEN GetFile(nItem) ELSE NullPtr} :
          /\ SetError(t, err)
          /\ romeRefs' = IF pFile # NullPtr
                         THEN [romeRefs EXCEPT ![pFile] = GetItem_AddRef(@)]
                         ELSE romeRefs
          /\ opens' = IF pFile # NullPtr THEN opens + 1 ELSE opens
          /\ call' = Returned(t, "RomeFilesGetItem", "", "", "", nItem, "", 0, pFile, NullAttr,
                              err, FALSE)
    /\ UNCHANGED <<sessionVars, fileValid, worldVars, findVars, threadVars>>

\* RomeFileDelete(pFile): the count is decremented without being tested and
\* CFileSys::DeleteFile releases the file whatever the count is.
RomeFileDelete(t, f) ==
    /\ Idle(t) /\ LockFree(t)
    /\ Obtained(f)
    /\ \E err \in {IF Exited(flags) THEN "RomeFileDelete: RomeExit() has already been called."
                    ELSE IF ~fileValid[f] THEN "RomeFileDelete: invalid file pointer."
                    ELSE NoErr} :
          /\ SetError(t, err)
          /\ romeRefs' = IF err = NoErr THEN [romeRefs EXCEPT ![f] = 0] ELSE romeRefs
          /\ fileValid' = IF err = NoErr THEN [fileValid EXCEPT ![f] = FALSE] ELSE fileValid
          /\ attrId' = IF err = NoErr THEN [attrId EXCEPT ![f] = NoAttrs] ELSE attrId
          /\ attrVals' = IF err = NoErr THEN [attrVals EXCEPT ![f] = NoVals] ELSE attrVals
          /\ stack' = IF err = NoErr THEN RemoveTasks(stack, f) ELSE stack
          /\ call' = Returned(t, "RomeFileDelete", f, "", "", 0, "",
                              IF err # NoErr THEN RX_FAILURE ELSE RX_TRUE,
                              "", NullAttr, err, FALSE)
    /\ UNCHANGED <<sessionVars, opens, nextId, engineFatal, lockCount, findVars, threadVars>>

(***************************************************************************)
(* Attribute functions.  Each body operator maps the world before the call *)
(* to the world after it and the call's result.                            *)
(***************************************************************************)
\* The facade's own diagnosis of a NULL result of FindOrCreate.
NoAttrError(fn, a, f) ==
    IF ~GetListing(a).listed THEN fn \o ": no Rusle2 parameter of that name."
    ELSE IF ~IsValidObject(a, FileObjType(f))
    THEN fn \o ": Rusle2 parameter asked for in wrong object type."
    ELSE fn \o ": failed to create attr."

\* Faulty variant: a resolution that constructs an instance on every call.
GetAttr_AlwaysCreate(W, a, f) ==
    IF GetListing(a).listed /\ IsValidObject(a, FileObjType(f))
    THEN Only({ [w |-> W2, p |-> W2.id[f][a]] : W2 \in {CreateAttr(W, a, f)} })
    ELSE [w |-> W, p |-> NullAttr]

\* RomeFileGetAttr: the resolution step.
GetAttr_Resolve(W, a, f) == FindOrCreate(W, a, f)

\* RomeFileGetAttr(pFile, pszAttr)
RomeFileGetAttr(t, f, a) ==
    /\ Idle(t) /\ LockFree(t)
    /\ Obtained(f)
    /\ \E r \in {IF FileCheck("RomeFileGetAttr", f) # NoErr
                 THEN [w |-> World, p |-> NullAttr, err |-> FileCheck("RomeFileGetAttr", f)]
                 ELSE [w |-> GetAttr_Resolve(World, a, f).w,
                       p |-> GetAttr_Resolve(World, a, f).p, err |-> NoErr]} :
          /\ SetError(t, r.err)
          /\ SetWorld(r.w)
          /\ call' = Returned(t, "RomeFileGetAttr", f, a, "", 0, "", 0, "", r.p, r.err, FALSE)
    /\ UNCHANGED <<sessionVars, fileVars, findVars, threadVars>>

\* RomeFileGetAttrSizeEx(pFile, pszAttr)
GetAttrSizeExBody(W, f, a) ==
    Only({ IF r.p = NullAttr
           THEN [w |-> r.w, ret |-> RX_FAILURE,
                 err |-> "RomeFileGetAttrSizeEx: failed to create attr."]
           ELSE Only({ [w |-> W2, ret |-> Len(W2.vals[f][a]), err |-> NoErr]
                       : W2 \in {FinishUpdates(r.w)} })
           : r \in {FindOrCreate(FinishUpdates(W), a, f)} })

RomeFileGetAttrSizeEx(t, f, a) ==
    /\ Idle(t) /\ LockFree(t)
    /\ Obtained(f)
    /\ \E r \in {IF ~ValidApp(f)
                 THEN [w |-> World, ret |-> RX_FAILURE,
                       err |-> "RomeFileGetAttrSizeEx: invalid file pointer."]
                 ELSE IF FileCheck("RomeFileGetAttrSizeEx", f) # NoErr
                 THEN [w |-> World, ret |-> RX_FAILURE,
                       err |-> FileCheck("RomeFileGetAttrSizeEx", f)]
                 ELSE GetAttrSizeExBody(World, f, a)} :
          /\ SetError(t, r.err)
          /\ SetWorld(r.w)
          /\ call' = Returned(t, "RomeFileGetAttrSizeEx", f, a, "", 0, "", r.ret, "", NullAttr,
                              r.err, FALSE)
    /\ UNCHANGED <<sessionVars, fileVars, findVars, threadVars>>

\* RomeFileGetAttrDimSize(pFile, pszAttr, nDim): the size of the attribute
\* along its dimension.
RomeFileGetAttrDimSize(t, f, a) ==
    /\ Idle(t) /\ LockFree(t)
    /\ Obtained(f)
    /\ \E r \in {IF SizeArgCheck("RomeFileGetAttrDimSize", f).err # NoErr
                 THEN [w |-> World, ret |-> SizeArgCheck("RomeFileGetAttrDimSize", f).ret,
                       err |-> SizeArgCheck("RomeFileGetAttrDimSize", f).err]
                 ELSE Only({ IF q.p = NullAttr
                             THEN [w |-> q.w, ret |-> RX_FAILURE,
                                   err |-> "+RomeFileGetAttrDimSize: failed to create attr."]
                             ELSE Only({ [w |-> W2, ret |-> Len(W2.vals[f][a]), err |-> NoErr]
                                         : W2 \in {FinishUpdates(q.w)} })
                             : q \in {FindOrCreate(FinishUpdates(World), a, f)} })} :
          /\ SetError(t, r.err)
          /\ SetWorld(r.w)
          /\ call' = Returned(t, "RomeFileGetAttrDimSize", f, a, "", 0, "", r.ret, "", NullAttr,
                              r.err, FALSE)
    /\ UNCHANGED <<sessionVars, fileVars, findVars, threadVars>>

\* RomeFileSaveAsEx(pFile, pszNewName, nFlags): drain the engine and write the
\* file; saved = CFileSys::Save reports success.
RomeFileSaveAsEx(t, f, saved) ==
    /\ Idle(t) /\ LockFree(t)
    /\ Obtained(f)
    /\ \E r \in {IF FileCheck("RomeFileSaveAsEx", f) # NoErr
                 THEN [w |-> World, ret |-> RX_FAILURE,
                       err |-> FileCheck("RomeFileSaveAsEx", f)]
                 ELSE [w |-> FinishUpdates(World),
                       ret |-> IF saved THEN RX_TRUE ELSE RX_FALSE, err |-> NoErr]} :
          /\ SetError(t, r.err)
          /\ SetWorld(r.w)
          /\ call' = Returned(t, "RomeFileSaveAsEx", f, "", "", 0, "", r.ret, "", NullAttr,
                              r.err, FALSE)
    /\ UNCHANGED <<sessionVars, fileVars, findVars, threadVars>>

\* Width in bits of RT_SHORT in the model (16 in the build): a short holds
\* -2^(ShortBits-1) .. 2^(ShortBits-1) - 1.
ShortBits == 2
ShortMax == 2 ^ (ShortBits - 1) - 1

\* (RT_SHORT)nSize: the low ShortBits bits of nSize as a signed number.
CastShort(nSize) == ((nSize + 2 ^ (ShortBits - 1)) % (2 ^ ShortBits)) - 2 ^ (ShortBits - 1)

\* Faulty variant: the cast is not tested.
SizeFitsShort_Untested(nSize) == TRUE

\* nSize == (int)xSize
SizeFitsShort(nSize) == nSize = CastShort(nSize)

\* RomeFileGetAttrSize(pFile, pszAttr), after the argument tests.
GetAttrSizeBody(W, f, a) ==
    Only({ IF r.p = NullAttr
           THEN [w |-> r.w, ret |-> RX_FAILURE,
                 err |-> "+RomeFileGetAttrSize: failed to create attr."]
           ELSE Only({ IF ~SizeFitsShort(Len(W2.vals[f][a]))
                       THEN [w |-> W2, ret |-> RX_FAILURE,
                             err |-> "RomeFileGetAttrSize: size is too large to cast to short."]
                       ELSE [w |-> W2, ret |-> CastShort(Len(W2.vals[f][a])), err |-> NoErr]
                       : W2 \in {FinishUpdates(r.w)} })
           : r \in {FindOrCreate(FinishUpdates(W), a, f)} })

RomeFileGetAttrSize(t, f, a) ==
    /\ Idle(t) /\ LockFree(t)
    /\ Obtained(f)
    /\ \E r \in {IF SizeArgCheck("RomeFileGetAttrSize", f).err # NoErr
                 THEN [w |-> World, ret |-> SizeArgCheck("RomeFileGetAttrSize", f).ret,
                       err |-> SizeArgCheck("RomeFileGetAttrSize", f).err]
                 ELSE IF ThreadCheck("RomeFileGetAttrSize", t) # NoErr
                 THEN [w |-> World, ret |-> RX_FAILURE,
                       err |-> ThreadCheck("RomeFileGetAttrSize", t)]
                 ELSE GetAttrSizeBody(World, f, a)} :
          /\ SetError(t, r.err)
          /\ SetWorld(r.w)
          /\ call' = Returned(t, "RomeFileGetAttrSize", f, a, "", 0, "", r.ret, "", NullAttr,
                              r.err, FALSE)
    /\ UNCHANGED <<sessionVars, fileVars, findVars, threadVars>>

\* Int2Str(n)
Int2Str(n) == ToString(n)

\* AttrGetIndex(pAttr, 0): the attribute's current index.
AttrGetIndex(W, f, a) == 0

\* RomeFileGetAttrValueAux: the drain made just before the value is read.
GetValue_DrainBeforeRead(W) == FinishUpdates(W)

\* RomeFileGetAttrValueAux(pFile, pszAttr, nIndex, nVariant, pszUnit), after
\* the argument tests.
GetAttrValueBody(W, f, a, nIndex, unit) ==
    Only({ IF r.p = NullAttr
           THEN [w |-> r.w, str |-> NullPtr, err |-> NoAttrError("RomeFileGetAttrValue", a, f)]
           ELSE IF nIndex = -1
           THEN [w |-> r.w, str |-> Int2Str(AttrGetIndex(r.w, f, a)), err |-> NoErr]
           ELSE Only({ IF ~IsValidUnits(unit) THEN [w |-> W2, str |-> NullPtr, err |-> NoErr]
                       ELSE Only({ [w |-> W2,
                                    str |-> IF pszValue = NullPtr THEN "NULL" ELSE pszValue,
                                    err |-> NoErr]
                                   : pszValue \in {AttrGetStr(W2, f, a, nIndex)} })
                       : W2 \in {GetValue_DrainBeforeRead(r.w)} })
           : r \in {FindOrCreate(FinishUpdates(W), a, f)} })

\* Faulty variant: the index -1 is refused like the other negative indexes.
GetValue_IndexOk_NonNeg(nIndex) == nIndex >= 0

\* BOOL bValidIndex = ((nIndex >= 0) || (nIndex == -1));
GetValue_IndexOk(nIndex) == nIndex >= 0 \/ nIndex = -1

\* RomeFileGetAttrValueAux from entry to return: the world it leaves, the
\* string it returns and the error text it sets.
GetAttrValueResult(W, f, a, nIndex, unit) ==
    IF ~GetValue_IndexOk(nIndex)
    THEN [w |-> W, str |-> NullPtr, err |-> "RomeFileGetAttrValue: invalid index."]
    ELSE IF FileCheck("RomeFileGetAttrValue", f) # NoErr
    THEN [w |-> W, str |-> NullPtr, err |-> FileCheck("RomeFileGetAttrValue", f)]
    ELSE GetAttrValueBody(W, f, a, nIndex, unit)

RomeFileGetAttrValueAux(t, f, a, nIndex, unit) ==
    /\ Idle(t) /\ LockFree(t)
    /\ Obtained(f)
    /\ \E r \in {GetAttrValueResult(World, f, a, nIndex, unit)} :
          /\ SetError(t, r.err)
          /\ SetWorld(r.w)
          /\ call' = Returned(t, "RomeFileGetAttrValue", f, a, "", nIndex, unit, 0, r.str,
                              NullAttr, r.err, FALSE)
    /\ UNCHANGED <<sessionVars, fileVars, findVars, threadVars>>

\* CopyStrF(pBuf, nBufLen, psz): NUL-terminated copy of psz cut to the
\* capacity of the buffer; the empty string when psz is NULL.
CopyStrF(nBufLen, psz) ==
    IF psz = NullPtr THEN ""
    ELSE IF Len(psz) < nBufLen THEN psz
    ELSE SubSeq(psz, 1, nBufLen - 1)

\* Faulty variant: the handler leaves the buffer as the fault left it.
CatchF_KeepBuf(sBuf) == sBuf

\* catch (...) of the buffer-based functions: if (pBuf && nBufLen > 0) *pBuf = 0;
CatchF_ClearBuf(sBuf) == ""

\* RomeFileGetAttrValueF(pBuf, nBufLen, pFile, pszAttr, nIndex).  sBuf is what
\* the caller's buffer holds at the call; fault: a fault is raised after the
\* call of RomeFileGetAttrValue.  The buffer after the call is reported in
\* the str field and its capacity in the ret field of the call record.
RomeFileGetAttrValueF(t, sBuf, nBufLen, f, a, nIndex, fault) ==
    /\ Idle(t) /\ LockFree(t)
    /\ Obtained(f)
    /\ nBufLen > 0
    /\ \E r \in {GetAttrValueResult(World, f, a, nIndex, "#U_TEMPLATE")} :
          /\ SetError(t, IF fault THEN "RomeFileGetAttrValueF: exception." ELSE r.err)
          /\ SetWorld(r.w)
          /\ call' = Returned(t, "RomeFileGetAttrValueF", f, a, sBuf, nIndex, "", nBufLen,
                              IF fault THEN CatchF_ClearBuf(sBuf) ELSE CopyStrF(nBufLen, r.str),
                              NullAttr,
                              IF fault THEN "RomeFileGetAttrValueF: exception." ELSE r.err,
                              FALSE)
    /\ UNCHANGED <<sessionVars, fileVars, findVars, threadVars>>

\* The values of a float array as the caller's array holds them, in order.
RECURSIVE ArrayText(_)
ArrayText(vals) == IF vals = <<>> THEN "" ELSE Head(vals) \o ArrayText(Tail(vals))

\* AttrGetFloatArray(pAttr, pArray, pSize, nVariant, pszUnit): copy the values
\* into the caller's array of nArraySize elements; when the array is too small
\* nothing is copied, the size needed is stored and the result is FALSE.
AttrGetFloatArray(W, f, a, nArraySize) ==
    IF nArraySize < Len(W.vals[f][a])
    THEN [ret |-> RX_FALSE, size |-> Len(W.vals[f][a]), arr |-> ""]
    ELSE [ret |-> RX_TRUE, size |-> Len(W.vals[f][a]), arr |-> ArrayText(W.vals[f][a])]

\* RomeFileGetFloatArray(pFile, pszAttr, pArray, pSize, nVariant, pszUnit);
\* nArraySize = *pSize on entry.  The call record shows the attribute that was
\* resolved (ptr), the result (ret) and the values copied (str).
RomeFileGetFloatArray(t, f, a, nArraySize) ==
    /\ Idle(t) /\ LockFree(t)
    /\ Obtained(f)
    /\ \E r \in {IF Exited(flags)
                 THEN [w |-> World, ret |-> RX_FALSE, p |-> NullAttr, arr |-> "",
                       err |-> "RomeFileGetFloatArray: RomeExit() has already been called."]
                 ELSE IF ~fileValid[f]
                 THEN [w |-> World, ret |-> RX_FALSE, p |-> NullAttr, arr |-> "",
                       err |-> "RomeFileGetFloatArray: invalid file pointer."]
                 ELSE IF nArraySize = 0
                 THEN [w |-> World, ret |-> RX_FALSE, p |-> NullAttr, arr |-> "",
                       err |-> "RomeFileGetFloatArray: non-positive size."]
                 ELSE IF romeRefs[f] < 1
                 THEN [w |-> World, ret |-> RX_FALSE, p |-> NullAttr, arr |-> "",
                       err |-> "RomeFileGetFloatArray: invalid file reference count."]
                 ELSE IF ThreadCheck("RomeFileGetFloatArray", t) # NoErr
                 THEN [w |-> World, ret |-> RX_FALSE, p |-> NullAttr, arr |-> "",
                       err |-> ThreadCheck("RomeFileGetFloatArray", t)]
                 ELSE Only({ IF c.p = NullAttr
                             THEN [w |-> c.w, ret |-> RX_FALSE, p |-> NullAttr, arr |-> "",
                                   err |-> NoErr]
                             ELSE Only({ [w |-> c.w, ret |-> g.ret, p |-> c.p, arr |-> g.arr,
                                          err |-> NoErr]
                                         : g \in {AttrGetFloatArray(c.w, f, a, nArraySize)} })
                             : c \in {FindOrCreate(FinishUpdates(World), a, f)} })} :
          /\ SetError(t, r.err)
          /\ SetWorld(r.w)
          /\ call' = Returned(t, "RomeFileGetFloatArray", f, a, "", nArraySize, "", r.ret, r.arr,
                              r.p, r.err, FALSE)
    /\ UNCHANGED <<sessionVars, fileVars, findVars, threadVars>>

\* Faulty variant: the token is applied to the attribute, not to its dimension.
GetDimPtr_Self(a) == a

\* pAttr->dimensions.GetDimPtr(0)
GetDimPtr(a) == GetListing(a).dim

\* Faulty variant: the test of nIndex left out.
SetValue_IndexUnchecked(nIndex) == TRUE

\* RomeFileSetAttrValueAux: the test of nIndex.
SetValue_IndexOk(nIndex) == nIndex >= 0

\* MAX_SETSTR_SIZE, the longest value string a set accepts (scaled down).
MAX_SETSTR_SIZE == 7

\* RomeFileSetAttrValueAux: the test of pszValue.
SetValue_ValueOk(v) == v # NullPtr

\* bValidSize = (MAX_SETSTR_SIZE <= 0) || (strlen(pszValue) <= MAX_SETSTR_SIZE)
SetValue_SizeOk(v) == (MAX_SETSTR_SIZE <= 0) \/ (Len(v) <= MAX_SETSTR_SIZE)

\* Faulty variant: no drain between attribute creation and the change.
SetValue_NoDrainBeforeAlter(W) == W

\* RomeFileSetAttrValueAux: the drain made before the model is altered.
SetValue_DrainBeforeAlter(W) == FinishUpdates(W)

\* Faulty variant: the lock taken for the creation is still held after it.
UpdateLockScope_Kept(W) == W

\* The end of the scope of "CUpdateLock lock": the lock is released, also when
\* a fault unwinds the scope.
UpdateLockScope_Exit(W) == UnlockUpdate(W)

\* { CUpdateLock lock; pAttr = FindOrCreate(pszAttr, pFile); }
\* fault = the engine raises a fault while it creates the attribute; the
\* instance is then not made and the fault leaves the scope (thrown).
FindOrCreateLocked(W, a, f, fault) ==
    IF fault /\ FindOrCreate(W, a, f).w # W
    THEN [w |-> UpdateLockScope_Exit(LockUpdate(W)), p |-> NullAttr, thrown |-> TRUE]
    ELSE Only({ [w |-> UpdateLockScope_Exit(r.w), p |-> r.p, thrown |-> FALSE]
                : r \in {FindOrCreate(LockUpdate(W), a, f)} })

\* RomeFileSetAttrValueAux(pFile, pszAttr, pszValue, nIndex, nVariant, pszUnit),
\* after the argument tests.
SetAttrValueBody(W, f, a, v, nIndex, unit, fault) ==
    Only({ IF r.thrown
           THEN [w |-> r.w, ret |-> RX_FAILURE, err |-> "RomeFileSetAttrValue: exception."]
           ELSE IF r.p = NullAttr
           THEN [w |-> r.w, ret |-> RX_FAILURE,
                 err |-> NoAttrError("RomeFileSetAttrValue", a, f)]
           ELSE Only({ IF ~IsValidUnits(unit) THEN [w |-> W2, ret |-> RX_FALSE, err |-> NoErr]
                       ELSE Only({ [w |-> c.w, ret |-> c.ret, err |-> NoErr]
                                   : c \in {IF v = "#INSERT"
                                            THEN UserCmdResizeDim(W2, f, GetDimPtr(a), nIndex, FALSE)
                                            ELSE IF v = "#DELETE"
                                            THEN UserCmdResizeDim(W2, f, GetDimPtr(a), nIndex, TRUE)
                                            ELSE DoCmdSetStr(W2, f, a, v, nIndex)} })
                       : W2 \in {SetValue_DrainBeforeAlter(r.w)} })
           : r \in {FindOrCreateLocked(FinishUpdates(W), a, f, fault)} })

\* Size of the dimension of file f as the next call will find it
\* (a dimension is created with one row).
DimSize(f) == IF attrId[f]["DIM"] = NullAttr THEN 1 ELSE Len(attrVals[f]["DIM"])

RomeFileSetAttrValueAux(t, f, a, v, nIndex, unit, fault) ==
    /\ Idle(t) /\ LockFree(t)
    /\ Obtained(f)
    /\ v = "#INSERT" => DimSize(f) < MaxSize
    /\ \E r \in {IF ~SetValue_ValueOk(v)
                 THEN [w |-> World, ret |-> RX_FAILURE,
                       err |-> "RomeFileSetAttrValue: NULL value pointer."]
                 ELSE IF ~SetValue_IndexOk(nIndex)
                 THEN [w |-> World, ret |-> RX_FAILURE,
                       err |-> "RomeFileSetAttrValue: negative index."]
                 ELSE IF ~SetValue_SizeOk(v)
                 THEN [w |-> World, ret |-> RX_FAILURE,
                       err |-> "RomeFileSetAttrValue: value string exceeds MAX_SETSTR_SIZE."]
                 ELSE IF FileCheck("RomeFileSetAttrValue", f) # NoErr
                 THEN [w |-> World, ret |-> RX_FAILURE,
                       err |-> FileCheck("RomeFileSetAttrValue", f)]
                 ELSE SetAttrValueBody(World, f, a, v, nIndex, unit, fault)} :
          /\ SetError(t, r.err)
          /\ SetWorld(r.w)
          /\ call' = Returned(t, "RomeFileSetAttrValue", f, a, v, nIndex, unit, r.ret, "",
                              NullAttr, r.err, FALSE)
    /\ UNCHANGED <<sessionVars, fileVars, findVars, threadVars>>

Abs(n) == IF n < 0 THEN -n ELSE n

\* Faulty variant: the row count is one short.
SetSize_NumRowsShort(nDeltaSize) == Abs(nDeltaSize) - 1

\* RomeFileSetAttrSize: the number of rows to insert or delete.
SetSize_NumRows(nDeltaSize) == Abs(nDeltaSize)

\* Faulty variant: "changed" is reported whatever the sizes are.
SetSize_ChangedAlways(nOldSize, nNewSize) == 1

\* return (nOldSize != nNewSize);
SetSize_Changed(nOldSize, nNewSize) == IF nOldSize # nNewSize THEN 1 ELSE 0

\* The text of one UserCmdResizeDim(pAttr, "", nIndex, bDelete) command:
\* "-k" deletes row k, "+k" inserts a row at k.
ResizeCmd(nIndex, bDelete) == (IF bDelete THEN "-" ELSE "+") \o ToString(nIndex)

\* Faulty variant: the index stays where it started.
LoopIndex_Fixed(nIndex, bDelete) == nIndex

\* bDelete? nIndex--: nIndex++;
LoopIndex_Step(nIndex, bDelete) == IF bDelete THEN nIndex - 1 ELSE nIndex + 1

\* RomeFileSetAttrSize: the loop over UserCmdResizeDim.  The result is the
\* engine after the loop (w) and the commands the loop issued, in order (cmds).
RECURSIVE ResizeLoop(_, _, _, _, _, _)
ResizeLoop(W, f, a, nIndex, bDelete, i) ==
    IF i <= 0 THEN [w |-> W, cmds |-> ""]
    ELSE Only({ [w |-> rest.w, cmds |-> ResizeCmd(nIndex, bDelete) \o rest.cmds] :
                rest \in {ResizeLoop(UserCmdResizeDim(W, f, a, nIndex, bDelete).w, f, a,
                                     LoopIndex_Step(nIndex, bDelete), bDelete, i - 1)} })

\* Faulty variant: every dimension may be resized.
CanUserResize_Any(a) == TRUE

\* pAttr->CanUserResize()
CanUserResize(a) == GetListing(a).canResize

\* RomeFileSetAttrSize(pFile, pszAttr, nNewSize), after the argument tests.
\* nFault >= 0: the engine raises a fault in the loop after nFault rows, if
\* the loop has more rows than that; the catch-all handler returns failure.
SetAttrSizeBody(W, f, a, nNewSize, nFault) ==
    Only({ IF r.p = NullAttr
           THEN [w |-> r.w, ret |-> RX_FAILURE, cmds |-> "",
                 err |-> "RomeFileSetAttrSize: failed to create attr."]
           ELSE IF ~GetListing(a).isDim
           THEN [w |-> r.w, ret |-> RX_FAILURE, cmds |-> "",
                 err |-> "RomeFileSetAttrSize: cannot resize a non-dimension attr."]
           ELSE IF ~CanUserResize(a)
           THEN [w |-> r.w, ret |-> RX_FAILURE, cmds |-> "",
                 err |-> "RomeFileSetAttrSize: the attr cannot be resized."]
           ELSE Only({ Only({ IF nFault >= 0 /\ nFault < SetSize_NumRows(nNewSize - nOldSize)
                              THEN Only({ [w |-> L.w, cmds |-> L.cmds,
                                           ret |-> RX_FAILURE,
                                           err |-> "RomeFileSetAttrSize: exception."] :
                                          L \in {ResizeLoop(W2, f, a,
                                                            IF nNewSize < nOldSize
                                                            THEN nOldSize - 1 ELSE nOldSize,
                                                            nNewSize < nOldSize,
                                                            nFault)} })
                              ELSE Only({ [w |-> L.w, cmds |-> L.cmds,
                                           ret |-> SetSize_Changed(nOldSize, nNewSize),
                                           err |-> NoErr] :
                                          L \in {ResizeLoop(W2, f, a,
                                                            \* nIndex
                                                            IF nNewSize < nOldSize
                                                            THEN nOldSize - 1 ELSE nOldSize,
                                                            \* bDelete
                                                            nNewSize < nOldSize,
                                                            \* nNumRows
                                                            SetSize_NumRows(nNewSize - nOldSize))} })
                              : nOldSize \in {Len(W2.vals[f][a])} })
                       : W2 \in {FinishUpdates(r.w)} })
           : r \in {FindOrCreate(FinishUpdates(W), a, f)} })

\* RomeFileSetAttrSize: the two tests of nNewSize, in the order of the source.
SetSize_SizeCheck_ZeroPasses(nNewSize) ==
    IF nNewSize < 0 THEN "RomeFileSetAttrSize: negative size." ELSE NoErr

SetSize_SizeCheck(nNewSize) ==
    IF ~(nNewSize >= 0) THEN "RomeFileSetAttrSize: negative size."
    ELSE IF ~(nNewSize # 0) THEN "RomeFileSetAttrSize: zero size."
    ELSE NoErr

RomeFileSetAttrSize(t, f, a, nNewSize, nFault) ==
    /\ Idle(t) /\ LockFree(t)
    /\ Obtained(f)
    /\ nNewSize <= MaxSize
    /\ \E r \in {IF SetSize_SizeCheck(nNewSize) # NoErr
                 THEN [w |-> World, ret |-> RX_FAILURE, cmds |-> "",
                       err |-> SetSize_SizeCheck(nNewSize)]
                 ELSE IF FileCheck("RomeFileSetAttrSize", f) # NoErr
                 THEN [w |-> World, ret |-> RX_FAILURE, cmds |-> "",
                       err |-> FileCheck("RomeFileSetAttrSize", f)]
                 ELSE SetAttrSizeBody(World, f, a, nNewSize, nFault)} :
          /\ SetError(t, r.err)
          /\ SetWorld(r.w)
          /\ call' = Returned(t, "RomeFileSetAttrSize", f, a, "", nNewSize, "", r.ret, r.cmds,
                              NullAttr, r.err, FALSE)
    /\ UNCHANGED <<sessionVars, fileVars, findVars, threadVars>>

(***************************************************************************)
(* The steps of a file call.  A call tests its arguments, takes the        *)
(* call-level lock with ROME_API_LOCK(), runs its body and returns; the    *)
(* lock is released when the call returns.  The actions below take these   *)
(* steps one at a time, so that the calls of two threads interleave.       *)
(***************************************************************************)
\* Positions of a thread that holds the call-level lock inside a body.
BodyPcs == {"close.body", "set.body"}
\* Positions of a thread between the argument tests of a file call and its return.
FileCallPcs == {"close.write", "close.lock", "set.lock"} \cup BodyPcs

\* The call returns: the lock is released with the scope of the try block.
CallReturn(t) ==
    /\ pc' = [pc EXCEPT ![t] = "idle"]
    /\ apiLock' = IF apiLock = t THEN "none" ELSE apiLock
    /\ apiDepth' = IF apiLock = t THEN 0 ELSE apiDepth
    /\ pending' = [pending EXCEPT ![t] = NoPending]

\* ROME_API_LOCK(): thread t waits for the lock and takes it.
ApiLockTake(t, from, to) ==
    /\ pc[t] = from
    /\ apiLock = "none"
    /\ apiLock' = t
    /\ apiDepth' = 1
    /\ pc' = [pc EXCEPT ![t] = to]
    /\ UNCHANGED <<sessionVars, fileVars, worldVars, lastError, findVars, call,
                   initArgs, initCS, pending>>

\* RomeFileClose: the argument tests, and the read of m_nRomeRefs that the
\* test of the count and the decrement make.
FileCloseCheck(t, f) ==
    /\ Idle(t)
    /\ Obtained(f)
    /\ IF FileCheck("RomeFileClose", f) # NoErr
       THEN /\ SetError(t, FileCheck("RomeFileClose", f))
            /\ call' = Returned(t, "RomeFileClose", f, "", "", 0, "", RX_FAILURE, "", NullAttr,
                                FileCheck("RomeFileClose", f), FALSE)
            /\ UNCHANGED <<pc, pending>>
       ELSE /\ pc' = [pc EXCEPT ![t] = "close.write"]
            /\ pending' = [pending EXCEPT ![t] = [NoPending EXCEPT !.file = f,
                                                                   !.refs = romeRefs[f]]]
            /\ UNCHANGED <<lastError, call>>
    /\ UNCHANGED <<sessionVars, fileVars, worldVars, findVars, initArgs, initCS, apiLock, apiDepth>>

\* RomeFileClose: pFile->m_nRomeRefs-- stores the decremented count; the
\* lock has not been taken yet.  The count is an int that other threads
\* write at the same time: the decrement works on the value the test has
\* read (stale) or on the value the memory holds now.
FileCloseWrite(t, stale) ==
    /\ pc[t] = "close.write"
    /\ romeRefs' = [romeRefs EXCEPT ![pending[t].file] =
                        IF stale THEN pending[t].refs - 1 ELSE @ - 1]
    /\ pc' = [pc EXCEPT ![t] = "close.lock"]
    /\ UNCHANGED <<sessionVars, fileValid, opens, worldVars, lastError, findVars, call,
                   initArgs, initCS, apiLock, apiDepth, pending>>

FileCloseLock(t) == ApiLockTake(t, "close.lock", "close.body")

\* RomeFileClose: the body, CloseView(CVF_NOSAVE).  gone = the file object was
\* released after this call tested it, so the body works on a dangling
\* pointer: it faults (fault) or it reads stale memory and closes nothing.
FileCloseBody(t, fault) ==
    /\ pc[t] = "close.body"
    /\ \E f \in {pending[t].file} :
       \E gone \in {~fileValid[f]} :
       \E release \in {~gone /\ ~fault /\ romeRefs[f] = 0} :
       \E err \in {IF fault THEN "RomeFileClose: exception." ELSE NoErr} :
          /\ SetError(t, err)
          /\ fileValid' = IF release THEN [fileValid EXCEPT ![f] = FALSE] ELSE fileValid
          /\ attrId' = IF release THEN [attrId EXCEPT ![f] = NoAttrs] ELSE attrId
          /\ attrVals' = IF release THEN [attrVals EXCEPT ![f] = NoVals] ELSE attrVals
          /\ stack' = IF release THEN RemoveTasks(stack, f) ELSE stack
          /\ call' = Returned(t, "RomeFileClose", f, "", "", 0, "",
                              IF err # NoErr THEN RX_FAILURE
                              ELSE IF release THEN RX_TRUE ELSE RX_FALSE,
                              "", NullAttr, err, FALSE)
    /\ CallReturn(t)
    /\ UNCHANGED <<sessionVars, romeRefs, opens, nextId, engineFatal, lockCount, findVars, initArgs,
                   initCS>>

\* RomeFileSetAttrValueAux: the argument tests.
SetValueCheck(t, f, a, v, nIndex, unit) ==
    /\ Idle(t)
    /\ Obtained(f)
    /\ \E err \in {IF ~SetValue_IndexOk(nIndex) THEN "RomeFileSetAttrValue: negative index."
                    ELSE FileCheck("RomeFileSetAttrValue", f)} :
          IF err # NoErr
          THEN /\ SetError(t, err)
               /\ call' = Returned(t, "RomeFileSetAttrValue", f, a, v, nIndex, unit, RX_FAILURE,
                                   "", NullAttr, err, FALSE)
               /\ UNCHANGED <<pc, pending>>
          ELSE /\ pc' = [pc EXCEPT ![t] = "set.lock"]
               /\ pending' = [pending EXCEPT ![t] = [file |-> f, attr |-> a, val |-> v,
                                                     idx |-> nIndex, unit |-> unit,
                                                     refs |-> 0]]
               /\ UNCHANGED <<lastError, call>>
    /\ UNCHANGED <<sessionVars, fileVars, worldVars, findVars, initArgs, initCS, apiLock, apiDepth>>

SetValueLock(t) == ApiLockTake(t, "set.lock", "set.body")

\* RomeFileSetAttrValueAux: the body.  If the file object was released after
\* the call tested it, the body works on a dangling pointer: it faults and the
\* catch handler reports it (fault), or it writes to stale memory and reports
\* a change that no live file holds.
SetValueBody(t, fault) ==
    /\ pc[t] = "set.body"
    /\ \E p \in {pending[t]} :
       \E r \in {IF fault
                 THEN [w |-> World, ret |-> RX_FAILURE, err |-> "RomeFileSetAttrValue: exception."]
                 ELSE IF ~fileValid[p.file]
                 THEN [w |-> World, ret |-> RX_TRUE, err |-> NoErr]
                 ELSE SetAttrValueBody(World, p.file, p.attr, p.val, p.idx, p.unit, FALSE)} :
          /\ SetError(t, r.err)
          /\ SetWorld(r.w)
          /\ call' = Returned(t, "RomeFileSetAttrValue", p.file, p.attr, p.val, p.idx, p.unit,
                              r.ret, "", NullAttr, r.err, FALSE)
    /\ CallReturn(t)
    /\ UNCHANGED <<sessionVars, fileVars, findVars, initArgs, initCS>>

\* ROME_API_LOCK() inside a call that holds the lock already: the critical
\* section lets its holder enter again and counts the entries.
ApiLockEnter(t) ==
    /\ LockFree(t)
    /\ apiLock' = t
    /\ apiDepth' = apiDepth + 1

\* Faulty variant: the lock is not released at the end of the scope.
ApiLockLeave_Kept(t) == UNCHANGED <<apiLock, apiDepth>>

\* The end of the scope of one ROME_API_LOCK(): one entry is given back,
\* and the lock is free when the last one is.
ApiLockLeave(t) ==
    /\ apiDepth' = apiDepth - 1
    /\ apiLock' = IF apiDepth = 1 THEN "none" ELSE apiLock

\* RomeFileGetAttrValueF step by step.  The call: the tests of the buffer
\* arguments, made before the lock is taken.
GetFCall(t, nBufLen, f, a, nIndex) ==
    /\ Idle(t)
    /\ Obtained(f)
    /\ IF ~(nBufLen > 0)
       THEN /\ SetError(t, "RomeFileGetAttrValueF: non-positive buffer length.")
            /\ call' = Returned(t, "RomeFileGetAttrValueF", f, a, "", nIndex, "", nBufLen, "",
                                NullAttr, "RomeFileGetAttrValueF: non-positive buffer length.",
                                FALSE)
            /\ UNCHANGED <<pc, pending>>
       ELSE /\ pc' = [pc EXCEPT ![t] = "getf.lock"]
            /\ pending' = [pending EXCEPT ![t] = [file |-> f, attr |-> a, val |-> "",
                                                  idx |-> nIndex, unit |-> "",
                                                  refs |-> 0, len |-> nBufLen]]
            /\ UNCHANGED <<lastError, call>>
    /\ UNCHANGED <<sessionVars, fileVars, worldVars, findVars, initArgs, initCS, apiLock,
                   apiDepth>>

\* RomeFileGetAttrValueF: ROME_API_LOCK().
GetFLock(t) ==
    /\ pc[t] = "getf.lock"
    /\ ApiLockEnter(t)
    /\ pc' = [pc EXCEPT ![t] = "getf.call"]
    /\ UNCHANGED <<sessionVars, fileVars, worldVars, lastError, findVars, call,
                   initArgs, initCS, pending>>

\* RomeFileGetAttrValueF calls RomeFileGetAttrValue while it holds the lock:
\* the argument tests of the inner call, which returns NULL when one fails.
GetFInnerCheck(t) ==
    /\ pc[t] = "getf.call"
    /\ \E p \in {pending[t]} :
       \E err \in {IF ~GetValue_IndexOk(p.idx) THEN "RomeFileGetAttrValue: invalid index."
                    ELSE FileCheck("RomeFileGetAttrValue", p.file)} :
          IF err # NoErr
          THEN /\ SetError(t, err)
               /\ pending' = [pending EXCEPT ![t].val = NullPtr]
               /\ pc' = [pc EXCEPT ![t] = "getf.copy"]
          ELSE /\ pc' = [pc EXCEPT ![t] = "getf.inner.lock"]
               /\ UNCHANGED <<lastError, pending>>
    /\ UNCHANGED <<sessionVars, fileVars, worldVars, findVars, call, initArgs, initCS, apiLock,
                   apiDepth>>

\* The inner call's ROME_API_LOCK(), made by the thread that holds the lock.
GetFInnerLock(t) ==
    /\ pc[t] = "getf.inner.lock"
    /\ ApiLockEnter(t)
    /\ pc' = [pc EXCEPT ![t] = "getf.inner.body"]
    /\ UNCHANGED <<sessionVars, fileVars, worldVars, lastError, findVars, call,
                   initArgs, initCS, pending>>

\* The inner call's body and its return, normal or through its catch-all
\* (fault); the scope of the inner lock ends.
GetFInnerBody(t, fault) ==
    /\ pc[t] = "getf.inner.body"
    /\ \E p \in {pending[t]} :
       \E r \in {IF fault
                 THEN [w |-> World, str |-> NullPtr, err |-> "RomeFileGetAttrValue: exception."]
                 ELSE GetAttrValueBody(World, p.file, p.attr, p.idx, "#U_TEMPLATE")} :
          /\ SetError(t, r.err)
          /\ SetWorld(r.w)
          /\ pending' = [pending EXCEPT ![t].val = r.str]
    /\ ApiLockLeave(t)
    /\ pc' = [pc EXCEPT ![t] = "getf.copy"]
    /\ UNCHANGED <<sessionVars, fileVars, findVars, call, initArgs, initCS>>

\* RomeFileGetAttrValueF: CopyStrF and the return, normal or through the
\* catch-all (fault); the scope of the outer lock ends.
GetFCopy(t, fault) ==
    /\ pc[t] = "getf.copy"
    /\ \E p \in {pending[t]} :
       \E err \in {IF fault THEN "RomeFileGetAttrValueF: exception." ELSE NoErr} :
          /\ SetError(t, err)
          /\ call' = Returned(t, "RomeFileGetAttrValueF", p.file, p.attr, "", p.idx, "", p.len,
                              IF fault THEN CatchF_ClearBuf("") ELSE CopyStrF(p.len, p.val),
                              NullAttr, err, FALSE)
    /\ ApiLockLeave(t)
    /\ pc' = [pc EXCEPT ![t] = "idle"]
    /\ pending' = [pending EXCEPT ![t] = NoPending]
    /\ UNCHANGED <<sessionVars, fileVars, worldVars, findVars, initArgs, initCS>>

(***************************************************************************)
(* Database search.                                                        *)
(***************************************************************************)
\* Number of records every find result set holds.
NumRecords == 2

\* RomeDatabaseFindOpen(pDatabase, pszPattern, nFindFlags)
RomeDatabaseFindOpen(t) ==
    /\ Idle(t) /\ LockFree(t)
    /\ appHeld
    /\ LET err == IF Exited(flags)
                  THEN "RomeDatabaseFindOpen: RomeExit() has already been called."
                  ELSE IF ~dbOpen THEN "RomeDatabaseFindOpen: database not open."
                  ELSE NoErr
       IN /\ SetError(t, err)
          /\ findOpen' = (findOpen \/ err = NoErr)
          /\ findCursor' = IF err = NoErr THEN -1 ELSE findCursor
          /\ call' = Returned(t, "RomeDatabaseFindOpen", "", "", "", 0, "", 0,
                              IF err = NoErr THEN "find" ELSE NullPtr, NullAttr, err, FALSE)
    /\ UNCHANGED <<sessionVars, fileVars, worldVars, threadVars>>

\* DbFindSeek(pDbFind, nIndex): the item number, negative when there is none.
DbFindSeek(nIndex) == IF nIndex < NumRecords THEN nIndex ELSE -1

\* DbFindInfo(pDbFind, nInfoType): the field of the record at position nItem.
DbFindInfo(nItem) == "rec" \o ToString(nItem)

\* DbFindCount(pDbFind): the number of records in the result set.
DbFindCount == NumRecords

\* Faulty variant: the field is read where the result set stands.
FindInfo_NoSeek(nCursor, nIndex) == nCursor

\* long nItem = DbFindSeek(pDbFind, nIndex);
FindInfo_Seek(nCursor, nIndex) == DbFindSeek(nIndex)

\* RomeDatabaseFindInfo from entry to return: the string it returns, the
\* error text it sets and the position it leaves the result set at.
FindInfoResult(nCursor, nIndex) ==
    LET err == IF nIndex < 0 THEN "RomeDatabaseFindInfo: negative index."
               ELSE IF Exited(flags)
               THEN "RomeDatabaseFindInfo: RomeExit() has already been called."
               ELSE NoErr
    IN [err |-> err,
        str |-> IF err # NoErr \/ DbFindSeek(nIndex) < 0 THEN NullPtr
                ELSE DbFindInfo(FindInfo_Seek(nCursor, nIndex)),
        cursor |-> IF err = NoErr /\ DbFindSeek(nIndex) >= 0
                   THEN DbFindSeek(nIndex) ELSE nCursor]

\* RomeDatabaseFindInfo(pDbFind, nIndex, nInfoType)
RomeDatabaseFindInfo(t, nIndex) ==
    /\ Idle(t) /\ LockFree(t)
    /\ findOpen
    /\ \E r \in {FindInfoResult(findCursor, nIndex)} :
          /\ SetError(t, r.err)
          /\ findCursor' = r.cursor
          /\ call' = Returned(t, "RomeDatabaseFindInfo", "", "", "", nIndex, "", 0, r.str,
                              NullAttr, r.err, FALSE)
    /\ UNCHANGED <<sessionVars, fileVars, worldVars, findOpen, threadVars>>

\* RomeDatabaseFindInfoF(pBuf, nBufLen, pDbFind, nIndex, nInfoType)
RomeDatabaseFindInfoF(t, sBuf, nBufLen, nIndex, fault) ==
    /\ Idle(t) /\ LockFree(t)
    /\ findOpen
    /\ nBufLen > 0
    /\ \E r \in {FindInfoResult(findCursor, nIndex)} :
          /\ SetError(t, IF fault THEN "RomeDatabaseFindInfoF: exception." ELSE r.err)
          /\ findCursor' = r.cursor
          /\ call' = Returned(t, "RomeDatabaseFindInfoF", "", "", sBuf, nIndex, "", nBufLen,
                              IF fault THEN CatchF_ClearBuf(sBuf) ELSE CopyStrF(nBufLen, r.str),
                              NullAttr,
                              IF fault THEN "RomeDatabaseFindInfoF: exception." ELSE r.err,
                              FALSE)
    /\ UNCHANGED <<sessionVars, fileVars, worldVars, findOpen, threadVars>>

\* RomeDatabaseFindCount(pDbFind)
RomeDatabaseFindCount(t) ==
    /\ Idle(t) /\ LockFree(t)
    /\ findOpen
    /\ LET err == IF Exited(flags)
                  THEN "RomeDatabaseFindCount: RomeExit() has already been called."
                  ELSE NoErr
       IN /\ SetError(t, err)
          /\ call' = Returned(t, "RomeDatabaseFindCount", "", "", "", 0, "",
                              IF err = NoErr THEN DbFindCount ELSE 0, "", NullAttr, err, FALSE)
    /\ UNCHANGED <<sessionVars, fileVars, worldVars, findVars, threadVars>>

\* RomeDatabaseFindClose(pDbFind)
RomeDatabaseFindClose(t) ==
    /\ Idle(t) /\ LockFree(t)
    /\ findOpen
    /\ LET err == IF Exited(flags)
                  THEN "RomeDatabaseFindClose: RomeExit() has already been called."
                  ELSE NoErr
       IN /\ SetError(t, err)
          /\ findOpen' = (findOpen /\ err # NoErr)
          /\ findCursor' = findCursor
          /\ call' = Returned(t, "RomeDatabaseFindClose", "", "", "", 0, "", 0, "", NullAttr,
                              err, FALSE)
    /\ UNCHANGED <<sessionVars, fileVars, worldVars, threadVars>>

(***************************************************************************)
(* The specifications.                                                     *)
(***************************************************************************)
InitBase ==
    /\ flags = {}
    /\ commandLine = ""
    /\ initCount = 0
    /\ appHeld = FALSE
    /\ dbOpen = FALSE
    /\ fileValid = [f \in Files |-> FALSE]
    /\ romeRefs = [f \in Files |-> 0]
    /\ opens = 0
    /\ attrId = [f \in Files |-> NoAttrs]
    /\ attrVals = [f \in Files |-> NoVals]
    /\ nextId = 1
    /\ engineFatal = FALSE
    /\ lockCount = 0
    /\ stack = <<>>
    /\ lastError = [t \in Threads |-> ""]
    /\ findOpen = FALSE
    /\ findCursor = -1
    /\ call = NoCall
    /\ pc = [t \in Threads |-> "idle"]
    /\ initArgs = [t \in Threads |-> ""]
    /\ initCS = "none"
    /\ apiLock = "none"
    /\ apiDepth = 0
    /\ pending = [t \in Threads |-> NoPending]
    /\ nThreadId = "none"

\* The build without USE_ROMEAPI_THREADIdS.
Init == InitBase /\ useThreadIds = FALSE

\* The build with USE_ROMEAPI_THREADIdS.
InitThreadIds == InitBase /\ useThreadIds = TRUE

AppArgs == {AppPtr, NullPtr}

InitSteps(t, argSet, okSet) ==
    \/ \E args \in argSet : RomeInitCall(t, args)
    \/ RomeInitEnter(t)
    \/ RomeInitCheck(t)
    \/ RomeInitLock(t)
    \/ \E coreOk \in okSet : RomeInitBody(t, coreOk)

\* Spec: one client thread opens a file of type T1 once and works on its
\* attributes: it sets values of the array "A", resizes through "DIM" and
\* through the tokens, and reads values and sizes back.
Indexes == {-2} \cup (0 .. (MaxSize - 1))
Sizes == 1 .. MaxSize
SetValues == Values \cup {"#INSERT", "#DELETE"}
SetAttrs == {"A"}
GetAttrs == {"A", "B"}
SizeAttrs == {"DIM", "A", "B"}
ResizeAttrs == {"DIM", "A"}

Next ==
    \/ InitSteps(MainThread, {"/UnitSystem=US"}, {TRUE})
    \/ RomeDatabaseOpen(MainThread)
    \/ \E f \in Files : ~fileValid[f] /\ RomeFilesOpen(MainThread, f, TRUE, "")
    \/ \E f \in Files, a \in GetAttrs : RomeFileGetAttr(MainThread, f, a)
    \/ \E f \in Files, a \in SizeAttrs : RomeFileGetAttrSizeEx(MainThread, f, a)
    \/ \E f \in Files, a \in GetAttrs, i \in Indexes :
          RomeFileGetAttrValueAux(MainThread, f, a, i, "#U_TEMPLATE")
    \/ \E f \in Files, a \in SetAttrs, v \in SetValues, i \in Indexes :
          RomeFileSetAttrValueAux(MainThread, f, a, v, i, "#U_TEMPLATE", FALSE)
    \/ \E f \in Files, a \in ResizeAttrs, n \in Sizes : RomeFileSetAttrSize(MainThread, f, a, n, -1)

Spec == Init /\ [][Next]_vars

\* SpecErr: one client thread exercises the failure paths of the API.
ErrAttrs == {"A", "Y", "NOPE"}
ErrIndexes == {-2, -1, 0}
ErrUnits == {"#U_TEMPLATE", "BAD"}
ErrValues == {"8"}

NextErr ==
    \/ InitSteps(MainThread, {"/UnitSystem=US"}, BOOLEAN)
    \/ \E pApp \in AppArgs : RomeExit(MainThread, pApp)
    \/ \E pApp \in AppArgs : RomeGetLastError(MainThread, pApp)
    \/ \E pApp \in AppArgs, txt \in ErrTexts : RomeSetLastError(MainThread, pApp, txt)
    \/ \E pApp \in AppArgs, fault \in BOOLEAN : RomeSetMessageCallback(MainThread, pApp, fault)
    \/ RomeDatabaseOpen(MainThread)
    \/ \E f \in Files, found \in BOOLEAN : RomeFilesOpen(MainThread, f, found, "")
    \/ \E f \in Files, fault \in BOOLEAN : RomeFileClose(MainThread, f, fault)
    \/ \E f \in Files, a \in ErrAttrs : RomeFileGetAttr(MainThread, f, a)
    \/ \E f \in Files, a \in ErrAttrs, i \in ErrIndexes, u \in ErrUnits :
          RomeFileGetAttrValueAux(MainThread, f, a, i, u)
    \/ \E f \in Files, a \in ErrAttrs, v \in ErrValues, i \in ErrIndexes, u \in ErrUnits :
          RomeFileSetAttrValueAux(MainThread, f, a, v, i, u, FALSE)
    \/ RomeDatabaseFindOpen(MainThread)
    \/ \E i \in {-1, 0, NumRecords} : RomeDatabaseFindInfo(MainThread, i)
    \/ RomeDatabaseFindClose(MainThread)

SpecErr == Init /\ [][NextErr]_vars

\* SpecInit: every thread of the process may call RomeInit and RomeExit.
NextInit ==
    \/ \E t \in Threads : InitSteps(t, InitArgsSet, BOOLEAN)
    \/ \E t \in Threads : RomeExit(t, AppPtr)
    \/ \E t \in Threads : RomeGetLastError(t, AppPtr)

SpecInit == Init /\ [][NextInit]_vars

\* SpecLastErr: two threads write and read their error strings with every
\* prefix, start the session, and make a call that fails.  A text that is
\* affixed is accepted while the string is shorter than MaxBufLen.
MaxBufLen == 4
PrefixTexts == {"a", "+b", "-c", "=d", NullPtr}
OtherTexts == {"+b", NullPtr}
TextsOf(t) == IF t = MainThread THEN PrefixTexts ELSE OtherTexts
Affixes(txt) == txt \in {"+b", "-c"}

NextLastErr ==
    \/ \E t \in Threads : InitSteps(t, {""}, {TRUE})
    \/ \E t \in Threads, pApp \in AppArgs :
          \E txt \in TextsOf(t) :
             /\ Affixes(txt) => Len(lastError[t]) < MaxBufLen
             /\ RomeSetLastError(t, pApp, txt)
    \/ \E t \in Threads, pApp \in AppArgs : RomeGetLastError(t, pApp)
    \/ \E t \in Threads : RomeExit(t, NullPtr)

SpecLastErr == Init /\ [][NextLastErr]_vars

\* SpecLock: two threads share one file; each opens it, sets a value of "A"
\* and closes it, and the steps of their calls interleave.
LockValues == {"8"}

NextLock ==
    \/ InitSteps(MainThread, {""}, {TRUE})
    \/ RomeDatabaseOpen(MainThread)
    \/ \E t \in Threads, f \in Files : RomeFilesOpen(t, f, TRUE, "")
    \/ \E t \in Threads, f \in Files : FileCloseCheck(t, f)
    \/ \E t \in Threads, stale \in BOOLEAN : FileCloseWrite(t, stale)
    \/ \E t \in Threads : FileCloseLock(t)
    \/ \E t \in Threads, fault \in BOOLEAN : FileCloseBody(t, fault)
    \/ \E t \in Threads, f \in Files, v \in LockValues : SetValueCheck(t, f, "A", v, 0, "#U_TEMPLATE")
    \/ \E t \in Threads : SetValueLock(t)
    \/ \E t \in Threads, fault \in BOOLEAN : SetValueBody(t, fault)

SpecLock == Init /\ [][NextLock]_vars

\* SpecRefs: one client thread obtains the file through RomeFilesOpen and
\* RomeFilesGetItem, creates an attribute in it, and gives the file back
\* through RomeFileClose and RomeFileDelete.
NextRefs ==
    \/ InitSteps(MainThread, {""}, {TRUE})
    \/ RomeDatabaseOpen(MainThread)
    \/ \E f \in Files, found \in BOOLEAN : RomeFilesOpen(MainThread, f, found, "")
    \/ \E f \in Files, created \in BOOLEAN : RomeFilesAdd(MainThread, f, created)
    \/ \E nItem \in -1 .. 1 : RomeFilesGetItem(MainThread, nItem)
    \/ \E f \in Files : RomeFileGetAttr(MainThread, f, "A")
    \/ \E f \in Files, fault \in BOOLEAN : RomeFileClose(MainThread, f, fault)
    \/ \E f \in Files : RomeFileDelete(MainThread, f)

SpecRefs == Init /\ [][NextRefs]_vars

\* SpecDrain: one client thread works on a file whose derived attribute "B"
\* is live: it sets values of "A", resizes "DIM", reads sizes and values, and
\* saves the file.
NextDrain ==
    \/ InitSteps(MainThread, {""}, {TRUE})
    \/ RomeDatabaseOpen(MainThread)
    \/ \E f \in Files : ~fileValid[f] /\ RomeFilesOpen(MainThread, f, TRUE, "")
    \/ \E f \in Files : RomeFileGetAttr(MainThread, f, "B")
    \/ \E f \in Files, a \in {"DIM", "B"} : RomeFileGetAttrDimSize(MainThread, f, a)
    \/ \E f \in Files : RomeFileGetAttrSize(MainThread, f, "DIM")
    \/ \E f \in Files, a \in {"A", "B"}, i \in 0 .. (MaxSize - 1) :
          RomeFileGetAttrValueAux(MainThread, f, a, i, "#U_TEMPLATE")
    \/ \E f \in Files, v \in Values, i \in 0 .. (MaxSize - 1) :
          RomeFileSetAttrValueAux(MainThread, f, "A", v, i, "#U_TEMPLATE", FALSE)
    \/ \E f \in Files, n \in Sizes : RomeFileSetAttrSize(MainThread, f, "DIM", n, -1)
    \/ \E f \in Files, saved \in BOOLEAN : RomeFileSaveAsEx(MainThread, f, saved)

SpecDrain == Init /\ [][NextDrain]_vars

\* SpecFatal: the calls of SpecDrain with an engine that may meet a fatal
\* internal error at any time.
NextFatal ==
    \/ InitSteps(MainThread, {""}, {TRUE})
    \/ RomeDatabaseOpen(MainThread)
    \/ \E f \in Files : ~fileValid[f] /\ RomeFilesOpen(MainThread, f, TRUE, "")
    \/ EngineFatalError
    \/ \E fault \in BOOLEAN : RomeEngineFinishUpdates(MainThread, fault)
    \/ \E f \in Files : RomeFileGetAttr(MainThread, f, "B")
    \/ \E f \in Files : RomeFileGetAttrSizeEx(MainThread, f, "B")
    \/ \E f \in Files : RomeFileGetAttrDimSize(MainThread, f, "DIM")
    \/ \E f \in Files, a \in {"A", "B"} :
          RomeFileGetAttrValueAux(MainThread, f, a, 0, "#U_TEMPLATE")
    \/ \E f \in Files, v \in Values :
          RomeFileSetAttrValueAux(MainThread, f, "A", v, 0, "#U_TEMPLATE", FALSE)
    \/ \E f \in Files, n \in Sizes : RomeFileSetAttrSize(MainThread, f, "DIM", n, -1)
    \/ \E f \in Files, saved \in BOOLEAN : RomeFileSaveAsEx(MainThread, f, saved)

SpecFatal == Init /\ [][NextFatal]_vars

\* SpecSize: one client thread resizes attributes of every kind ("DIM" may
\* be resized, "FDIM" is a dimension that may not, "A" is no dimension) with
\* requests of every sign, with and without an engine fault in the resize
\* loop; it sets values of "A" with good and bad arguments and reads sizes.
\* nFault is the number of rows the loop completes before the engine raises
\* a fault; -1: no fault.
NextSize ==
    \/ InitSteps(MainThread, {""}, {TRUE})
    \/ RomeDatabaseOpen(MainThread)
    \/ \E f \in Files : ~fileValid[f] /\ RomeFilesOpen(MainThread, f, TRUE, "")
    \/ \E f \in Files : RomeFileGetAttr(MainThread, f, "B")
    \/ \E f \in Files, a \in {"DIM", "A", "FDIM"} : RomeFileGetAttrSizeEx(MainThread, f, a)
    \/ \E f \in Files, v \in ErrValues, i \in ErrIndexes, u \in ErrUnits :
          RomeFileSetAttrValueAux(MainThread, f, "A", v, i, u, FALSE)
    \/ \E f \in Files, a \in {"DIM", "A", "FDIM"}, n \in -1 .. MaxSize, nFault \in {-1, 1} :
          RomeFileSetAttrSize(MainThread, f, a, n, nFault)

SpecSize == Init /\ [][NextSize]_vars

\* SpecSetValue: one client thread sets values of attributes that are known,
\* of the wrong object type and unknown, with values that are good, null and
\* too long, at good and negative indexes, in good and bad units.
BadValues == {"7", "8", NullPtr, "12345678"}

NextSetValue ==
    \/ InitSteps(MainThread, {""}, {TRUE})
    \/ RomeDatabaseOpen(MainThread)
    \/ \E f \in Files : ~fileValid[f] /\ RomeFilesOpen(MainThread, f, TRUE, "")
    \/ \E f \in Files : RomeFileGetAttrValueAux(MainThread, f, "A", 0, "#U_TEMPLATE")
    \/ \E f \in Files, a \in ErrAttrs, v \in BadValues, i \in {-1, 0, 1}, u \in ErrUnits :
          RomeFileSetAttrValueAux(MainThread, f, a, v, i, u, FALSE)

SpecSetValue == Init /\ [][NextSetValue]_vars

\* SpecQueue: one client thread works on a file whose derived attribute "B"
\* may be live, changes values and sizes, reads values one by one and as
\* arrays, and closes the file at any moment.
NextQueue ==
    \/ InitSteps(MainThread, {""}, {TRUE})
    \/ RomeDatabaseOpen(MainThread)
    \/ \E f \in Files : ~fileValid[f] /\ RomeFilesOpen(MainThread, f, TRUE, "")
    \/ \E f \in Files : RomeFileGetAttr(MainThread, f, "B")
    \/ \E f \in Files : RomeFileGetAttrValueAux(MainThread, f, "B", 0, "#U_TEMPLATE")
    \/ \E f \in Files, v \in Values :
          RomeFileSetAttrValueAux(MainThread, f, "A", v, 0, "#U_TEMPLATE", FALSE)
    \/ \E f \in Files, n \in 1 .. 2 : RomeFileSetAttrSize(MainThread, f, "DIM", n, -1)
    \/ \E f \in Files, a \in {"A", "B", "NOPE"}, n \in {0, 1, MaxSize} :
          RomeFileGetFloatArray(MainThread, f, a, n)
    \/ \E f \in Files : RomeFileClose(MainThread, f, FALSE)

SpecQueue == Init /\ [][NextQueue]_vars

\* SpecEngineLock: one client thread locks and unlocks the engine's updates
\* around its writes and reads; the engine may fault while a set creates its
\* attribute.
NextEngineLock ==
    \/ InitSteps(MainThread, {""}, {TRUE})
    \/ RomeDatabaseOpen(MainThread)
    \/ \E f \in Files : ~fileValid[f] /\ RomeFilesOpen(MainThread, f, TRUE, "")
    \/ RomeEngineLockUpdate(MainThread)
    \/ RomeEngineUnlockUpdate(MainThread)
    \/ \E f \in Files : RomeFileGetAttr(MainThread, f, "B")
    \/ \E f \in Files, a \in {"A", "B"} : RomeFileGetAttrValueAux(MainThread, f, a, 0, "#U_TEMPLATE")
    \/ \E f \in Files : RomeFileGetAttrSize(MainThread, f, "A")
    \/ \E f \in Files, a \in {"A", "NOPE"}, v \in Values, fault \in BOOLEAN :
          RomeFileSetAttrValueAux(MainThread, f, a, v, 0, "#U_TEMPLATE", fault)

SpecEngineLock == Init /\ [][NextEngineLock]_vars

\* SpecSizeErr: one client thread asks for sizes with good and bad arguments:
\* before and after RomeExit, on a file it has closed, on a file pointer of no
\* session, for a name the catalog does not list.
NextSizeErr ==
    \/ InitSteps(MainThread, {""}, {TRUE})
    \/ RomeExit(MainThread, AppPtr)
    \/ RomeDatabaseOpen(MainThread)
    \/ \E f \in Files : ~fileValid[f] /\ RomeFilesOpen(MainThread, f, TRUE, "")
    \/ \E f \in Files : RomeFileClose(MainThread, f, FALSE)
    \/ \E f \in Files \cup {ForeignFile} : RomeFileGetAttrSize(MainThread, f, "A")
    \/ \E f \in Files \cup {ForeignFile}, a \in {"A", "NOPE"} :
          RomeFileGetAttrSizeEx(MainThread, f, a)
    \/ \E f \in Files \cup {ForeignFile} : RomeFileGetAttrDimSize(MainThread, f, "A")

SpecSizeErr == Init /\ [][NextSizeErr]_vars

\* Magic prefixes of the file names the caller passes to RomeFilesOpen.
Prefixes == {"", "#XML:", "<?xml", "#FILESET:"}

\* SpecOpen: one client thread opens files from the database and through the
\* magic prefixes, with names that can and cannot be opened, and closes them.
NextOpen ==
    \/ InitSteps(MainThread, {""}, {TRUE})
    \/ RomeExit(MainThread, AppPtr)
    \/ RomeDatabaseOpen(MainThread)
    \/ \E f \in Files, found \in BOOLEAN, prefix \in Prefixes :
          RomeFilesOpen(MainThread, f, found, prefix)
    \/ \E f \in Files : RomeFileGetAttr(MainThread, f, "A")
    \/ \E f \in Files : RomeFileClose(MainThread, f, FALSE)

SpecOpen == Init /\ [][NextOpen]_vars

\* RomeFilesGetDependencies.  The files of the database that the walk can
\* meet, and a name that an ATTR_PTR attribute holds although no file of the
\* database has it.
DepNames == {"f1", "d2", "d3"}
GoneName == "gone"
\* The reference graphs: the file names held by the ATTR_PTR and ATTR_SUB
\* attributes of each file.  They hold no reference, chains, a file that
\* refers to itself, references back to "f1" and files that refer to each
\* other.
Graphs ==
    { g \in [DepNames -> SUBSET DepNames] :
        /\ g["f1"] \in {{}, {"f1"}, {"d2"}, {"d2", "d3"}}
        /\ g["d2"] \in {{}, {"f1"}, {"d3"}, {"f1", "d3"}}
        /\ g["d3"] \in {{}, {"f1"}, {"d2"}} }
\* Most passes of the work-list loop that are followed.
MaxPasses == 5

\* App.Files.FileExists(fileName)
FileExists(fileName) == fileName \in DepNames

\* The references of one file in the order the scan meets them.
RECURSIVE SeqOfNames(_)
SeqOfNames(S) ==
    IF S = {} THEN <<>>
    ELSE Only({ <<n>> \o SeqOfNames(S \ {n}) : n \in {CHOOSE m \in S : TRUE} })

RefsOf(graph, name, dangling) ==
    SeqOfNames(graph[name] \cup (IF dangling THEN {GoneName} ELSE {}))

\* ArrayFind(csaDeps, fileName) == -1
DepsIsNew_Always(csaDeps, fileName) == TRUE

DepsIsNew(csaDeps, fileName) == \A k \in 1 .. Len(csaDeps) : csaDeps[k] # fileName

\* The scan of one open file: every reference to a file that exists and is
\* not yet in csaDeps is put on the head of the stack and added to csaDeps.
RECURSIVE DepsScan(_, _, _)
DepsScan(refs, stk, csaDeps) ==
    IF refs = <<>> THEN [stack |-> stk, deps |-> csaDeps]
    ELSE IF FileExists(Head(refs)) /\ DepsIsNew(csaDeps, Head(refs))
    THEN DepsScan(Tail(refs), <<Head(refs)>> \o stk, Append(csaDeps, Head(refs)))
    ELSE DepsScan(Tail(refs), stk, csaDeps)

\* The work-list loop.  Each pass takes the head of the stack, opens the file
\* by RomeFilesOpen, scans it and closes it by RomeFileClose.  canOpen: the
\* nested RomeFilesOpen can return a file at all; rootFound: the database
\* has a file of the root's name.  null: RomeFilesOpen returned NULL and the
\* scan went through the null pointer.  done = FALSE: the stack is not empty
\* after MaxPasses passes.
RECURSIVE DepsLoop(_, _, _, _, _, _, _, _)
DepsLoop(graph, dangling, canOpen, stk, csaDeps, opened, closed, passes) ==
    IF stk = <<>>
    THEN [deps |-> csaDeps, opened |-> opened, closed |-> closed, passes |-> passes,
          done |-> TRUE, null |-> FALSE]
    ELSE IF passes = MaxPasses
    THEN [deps |-> csaDeps, opened |-> opened, closed |-> closed, passes |-> passes,
          done |-> FALSE, null |-> FALSE]
    ELSE IF ~(canOpen /\ FileExists(Head(stk)))
    THEN [deps |-> csaDeps, opened |-> opened, closed |-> closed, passes |-> passes + 1,
          done |-> TRUE, null |-> TRUE]
    ELSE Only({ DepsLoop(graph, dangling, canOpen, scan.stack, scan.deps,
                         [opened EXCEPT ![Head(stk)] = @ + 1],
                         [closed EXCEPT ![Head(stk)] = @ + 1], passes + 1)
                : scan \in {DepsScan(RefsOf(graph, Head(stk), dangling), Tail(stk),
                                     csaDeps)} })

\* The walk before its first pass.
NoWalk ==
    [deps |-> <<>>, opened |-> [n \in DepNames |-> 0], closed |-> [n \in DepNames |-> 0],
     passes |-> 0, done |-> TRUE, null |-> FALSE]

\* depsSize = csaDeps.GetCount() - 1
DepsSize(csaDeps) == Len(csaDeps) - 1

\* The names copied into depsArray: elements 0 .. depsSize - 1 of csaDeps.
DepsArray(csaDeps) == SubSeq(csaDeps, 1, DepsSize(csaDeps))

\* RomeFilesGetDependencies(pFiles, pszFilename, depsArray, depsSize) for the
\* root file name root over the reference graph graph.  A pass through a
\* null file pointer and the write of each name's terminator one byte past
\* its buffer are undefined: recovers says whether the catch-all gets
\* control (the call returns false) or the fault leaves the function.  An
\* allocation of depsSize = -1 pointers fails with an exception.  Every file
\* the walk opens it closes again, so no file's state is changed by it.
RomeFilesGetDependencies(t, root, graph, dangling, recovers) ==
    /\ Idle(t) /\ LockFree(t)
    /\ appHeld
    /\ \E r \in {IF Exited(flags)
                 THEN [w |-> World, ret |-> RX_FALSE, size |-> 0, names |-> <<>>,
                       walk |-> NoWalk, escaped |-> FALSE,
                       err |-> "RomeFilesGetDependecies: RomeExit() has already been called."]
                 ELSE Only({ IF L.null
                             THEN [w |-> W2, ret |-> RX_FALSE, size |-> 0, names |-> <<>>,
                                   walk |-> L, escaped |-> ~recovers,
                                   err |-> IF recovers
                                           THEN "RomeFilesGetDependecies: exception for File."
                                           ELSE NoErr]
                             ELSE IF DepsSize(L.deps) < 0
                             THEN [w |-> W2, ret |-> RX_FALSE, size |-> DepsSize(L.deps),
                                   names |-> <<>>, walk |-> L, escaped |-> FALSE,
                                   err |-> "RomeFilesGetDependecies: exception for File."]
                             ELSE [w |-> W2, ret |-> IF DepsSize(L.deps) > 0 /\ ~recovers
                                                     THEN RX_FALSE ELSE RX_TRUE,
                                   size |-> DepsSize(L.deps), names |-> DepsArray(L.deps),
                                   walk |-> L,
                                   escaped |-> (DepsSize(L.deps) > 0 /\ ~recovers),
                                   err |-> NoErr]
                             : L \in {DepsLoop(graph, dangling,
                                               dbOpen /\ ThreadCheck("RomeFilesOpen", t) = NoErr,
                                               <<root>>, <<>>, NoWalk.opened,
                                               NoWalk.closed, 0)},
                               W2 \in {FinishUpdates(World)} })} :
          /\ SetError(t, r.err)
          /\ SetWorld(r.w)
          /\ call' = Returned(t, "RomeFilesGetDependencies", root, "",
                              [graph |-> graph, walk |-> r.walk], r.size, "", r.ret, r.names,
                              NullAttr, r.err, r.escaped)
    /\ UNCHANGED <<sessionVars, fileVars, findVars, threadVars>>

\* SpecDeps: one client thread asks for the dependencies of a root file over
\* the reference graphs among three files (self references, references
\* back to the root and mutual references included), with and without
\* references to files the database does not have, with a root the database
\* does not have, before and after the database is open.
NextDeps ==
    \/ InitSteps(MainThread, {""}, {TRUE})
    \/ RomeExit(MainThread, AppPtr)
    \/ RomeDatabaseOpen(MainThread)
    \/ \E f \in Files : ~fileValid[f] /\ RomeFilesOpen(MainThread, f, TRUE, "")
    \/ \E f \in Files : RomeFileClose(MainThread, f, FALSE)
    \/ \E root \in {"f1", GoneName}, graph \in Graphs, dangling, recovers \in BOOLEAN :
          RomeFilesGetDependencies(MainThread, root, graph, dangling, recovers)

SpecDeps == Init /\ [][NextDeps]_vars

\* SpecExit: two client threads set values of a shared file step by step
\* while either of them may end the session by RomeExit.
NextExit ==
    \/ InitSteps(MainThread, {""}, {TRUE})
    \/ RomeDatabaseOpen(MainThread)
    \/ \E f \in Files : ~fileValid[f] /\ RomeFilesOpen(MainThread, f, TRUE, "")
    \/ \E t \in Threads : RomeExit(t, AppPtr)
    \/ \E t \in Threads, f \in Files, v \in LockValues : SetValueCheck(t, f, "A", v, 0, "#U_TEMPLATE")
    \/ \E t \in Threads : SetValueLock(t)
    \/ \E t \in Threads, fault \in BOOLEAN : SetValueBody(t, fault)

SpecExit == Init /\ [][NextExit]_vars

\* SpecNest: two client threads initialise the session, and read a value
\* through RomeFileGetAttrValueF, which calls RomeFileGetAttrValue while it
\* holds the call-level lock, and set values, every call step by step.
NestSteps(t) ==
    \/ InitSteps(t, {""}, {TRUE})
    \/ \E f \in Files, n \in {0, MaxBufLen} : GetFCall(t, n, f, "A", 0)
    \/ GetFInnerCheck(t)
    \/ \E fault \in BOOLEAN : GetFInnerBody(t, fault)
    \/ \E fault \in BOOLEAN : GetFCopy(t, fault)
    \/ \E f \in Files, v \in LockValues : SetValueCheck(t, f, "A", v, 0, "#U_TEMPLATE")
    \/ SetValueBody(t, FALSE)

\* The steps in which thread t waits for a lock and takes it.
NestLockSteps(t) ==
    \/ RomeInitEnter(t)
    \/ RomeInitLock(t)
    \/ GetFLock(t)
    \/ GetFInnerLock(t)
    \/ SetValueLock(t)

NextNest ==
    \/ RomeDatabaseOpen(MainThread)
    \/ \E f \in Files : ~fileValid[f] /\ RomeFilesOpen(MainThread, f, TRUE, "")
    \/ \E t \in Threads : NestSteps(t)
    \/ \E t \in Threads : NestLockSteps(t)

\* The steps of thread t that continue a call it has begun.
NestProgress(t) == pc[t] # "idle" /\ NestSteps(t)

\* Every thread that is inside a call goes on running, and a thread that
\* waits for a critical section gets it if it is free again and again.
SpecNest ==
    /\ Init
    /\ [][NextNest]_vars
    /\ \A t \in Threads : WF_vars(NestProgress(t)) /\ SF_vars(NestLockSteps(t))

\* SpecResize: one client thread changes the size of the dimension "DIM" by
\* set_attr_size, with requests of size 0 and below, and by "#INSERT" and
\* "#DELETE" on the attribute "A" that is sized from it, and reads the sizes
\* with the three size functions.
NextResize ==
    \/ InitSteps(MainThread, {""}, {TRUE})
    \/ RomeDatabaseOpen(MainThread)
    \/ \E f \in Files : ~fileValid[f] /\ RomeFilesOpen(MainThread, f, TRUE, "")
    \/ \E f \in Files, a \in {"DIM", "A"} : RomeFileGetAttrSize(MainThread, f, a)
    \/ \E f \in Files, a \in {"DIM", "A"} : RomeFileGetAttrSizeEx(MainThread, f, a)
    \/ \E f \in Files, a \in {"DIM", "A"} : RomeFileGetAttrDimSize(MainThread, f, a)
    \/ \E f \in Files, v \in {"7", "#INSERT", "#DELETE"}, i \in 0 .. MaxSize - 1 :
          RomeFileSetAttrValueAux(MainThread, f, "A", v, i, "#U_TEMPLATE", FALSE)
    \/ \E f \in Files, n \in -1 .. MaxSize : RomeFileSetAttrSize(MainThread, f, "DIM", n, -1)

SpecResize == Init /\ [][NextResize]_vars

\* SpecFind: one client thread opens find result sets on the database and
\* asks for the count and for the records in any order, with indexes inside
\* and outside the result set.
NextFind ==
    \/ InitSteps(MainThread, {""}, {TRUE})
    \/ \E pApp \in AppArgs : RomeExit(MainThread, pApp)
    \/ \E pApp \in AppArgs : RomeGetLastError(MainThread, pApp)
    \/ RomeDatabaseOpen(MainThread)
    \/ RomeDatabaseFindOpen(MainThread)
    \/ RomeDatabaseFindCount(MainThread)
    \/ \E i \in -1 .. NumRecords : RomeDatabaseFindInfo(MainThread, i)
    \/ RomeDatabaseFindClose(MainThread)

SpecFind == Init /\ [][NextFind]_vars

\* SpecBuf: one client thread reads values and find records through the
\* buffer-based functions, with a buffer that is empty or holds an earlier
\* text, with a capacity below and above the length of the results, with
\* calls that succeed, that fail and that meet a fault.
NextBuf ==
    \/ InitSteps(MainThread, {""}, {TRUE})
    \/ RomeDatabaseOpen(MainThread)
    \/ \E f \in Files : ~fileValid[f] /\ RomeFilesOpen(MainThread, f, TRUE, "")
    \/ \E f \in Files, v \in Values :
          RomeFileSetAttrValueAux(MainThread, f, "A", v, 0, "#U_TEMPLATE", FALSE)
    \/ \E f \in Files, a \in {"A", "NOPE"}, i \in -2 .. 1 :
          \E sBuf \in {"", "old"}, nBufLen \in {3, 5}, fault \in BOOLEAN :
             RomeFileGetAttrValueF(MainThread, sBuf, nBufLen, f, a, i, fault)
    \/ RomeDatabaseFindOpen(MainThread)
    \/ \E i \in -1 .. NumRecords :
          \E sBuf \in {"", "old"}, nBufLen \in {3, 5}, fault \in BOOLEAN :
             RomeDatabaseFindInfoF(MainThread, sBuf, nBufLen, i, fault)
    \/ RomeDatabaseFindClose(MainThread)

SpecBuf == Init /\ [][NextBuf]_vars

\* SpecThread: the build with USE_ROMEAPI_THREADIdS.  The main thread calls
\* RomeInit; both threads then open the database and a file, read a size,
\* read the error string and close the file.
NextThread ==
    \/ InitSteps(MainThread, {""}, {TRUE})
    \/ \E t \in Threads : RomeDatabaseOpen(t)
    \/ \E t \in Threads, f \in Files : RomeFilesOpen(t, f, TRUE, "")
    \/ \E t \in Threads, f \in Files : RomeFileGetAttrSize(t, f, "DIM")
    \/ \E t \in Threads : RomeGetLastError(t, AppPtr)
    \/ \E t \in Threads, f \in Files : RomeFileClose(t, f, FALSE)

SpecThread == InitThreadIds /\ [][NextThread]_vars

(***************************************************************************)
(* Properties.                                                             *)
(***************************************************************************)
\* The world in the successor state.
WorldNext == [id |-> attrId', vals |-> attrVals', next |-> nextId', stack |-> stack',
              fatal |-> engineFatal', lock |-> lockCount']

\* The step is a call of the client thread that is not RomeInit.
ApiStep == pc[MainThread] = "idle" /\ pc'[MainThread] = "idle"

\* What get_attr_value and get_attr_size would report in world W.
ValueHeld(W, f, a, i) == GetAttrValueBody(W, f, a, i, "#U_TEMPLATE").str
SizeSeen(W, f, a) == GetAttrSizeExBody(W, f, a).ret

\* C1: drain-before-read.  A set_attr_value that completes with "changed" or
\* "unchanged" leaves its value readable at its index and leaves what is
\* readable at every other index of the attribute as it was; a get_attr_value
\* changes nothing that is readable; and a get_attr_value that follows a
\* completed set on the same file, attribute and index returns the value the
\* set wrote.  Every read leaves the engine's update stack empty.
DrainBeforeRead ==
    [][/\ (/\ ApiStep
           /\ call'.op = "RomeFileSetAttrValue"
           /\ call'.val \in Values
           /\ IsValidUnits(call'.unit)
           /\ call'.ret \in {RX_TRUE, RX_FALSE})
             => /\ ValueHeld(WorldNext, call'.file, call'.attr, call'.idx) = call'.val
                /\ \A j \in 0 .. MaxSize :
                      j # call'.idx
                         => ValueHeld(WorldNext, call'.file, call'.attr, j)
                               = ValueHeld(World, call'.file, call'.attr, j)
       /\ (/\ ApiStep
           /\ call'.op = "RomeFileGetAttrValue"
           /\ call'.idx >= 0
           /\ call'.str # NullPtr)
             => /\ IsFinished(WorldNext)
                /\ \A j \in 0 .. MaxSize :
                      ValueHeld(WorldNext, call'.file, call'.attr, j)
                         = ValueHeld(World, call'.file, call'.attr, j)
       /\ (/\ ApiStep
           /\ call.op = "RomeFileSetAttrValue"
           /\ call.val \in Values
           /\ IsValidUnits(call.unit)
           /\ call.ret \in {RX_TRUE, RX_FALSE}
           /\ call'.op = "RomeFileGetAttrValue"
           /\ call'.file = call.file
           /\ call'.attr = call.attr
           /\ call'.idx = call.idx
           /\ IsValidUnits(call'.unit))
             => call'.str = call.val]_vars

\* A get_attr_value at index 1 of "A" has returned "8", which only a set writes.
DrainBeforeRead_Witness ==
    /\ call.op = "RomeFileGetAttrValue"
    /\ call.attr = "A"
    /\ call.idx = 1
    /\ call.str = "8"

\* C2: tri-state of set_attr_value on a live file.  Setting the value the
\* attribute holds returns 0 and leaves it; setting another legal value
\* returns 1 and the attribute then holds it; a negative index returns -1 and
\* changes neither the session, the files nor the attributes.
TriStateCorrect ==
    [][(/\ ApiStep
        /\ call'.op = "RomeFileSetAttrValue"
        /\ call'.val \in Values
        /\ IsValidUnits(call'.unit)
        /\ FileCheck("RomeFileSetAttrValue", call'.file) = NoErr)
       => LET f == call'.file
              a == call'.attr
              i == call'.idx
              v == call'.val
              held == ValueHeld(World, f, a, i)
          IN /\ (i >= 0 /\ held = v)
                  => (call'.ret = RX_FALSE /\ ValueHeld(WorldNext, f, a, i) = held)
             /\ (i >= 0 /\ held \in Values /\ held # v)
                  => (call'.ret = RX_TRUE /\ ValueHeld(WorldNext, f, a, i) = v)
             /\ (i < 0)
                  => (call'.ret = RX_FAILURE
                      /\ UNCHANGED <<sessionVars, fileVars, worldVars>>)]_vars

\* set_attr_value("A", "8", 1) has returned "changed" and "A" holds "8" there.
TriStateCorrect_Witness ==
    /\ call.op = "RomeFileSetAttrValue"
    /\ call.attr = "A"
    /\ call.val = "8"
    /\ call.idx = 1
    /\ call.ret = RX_TRUE
    /\ attrVals[call.file]["A"][2] = "8"

\* C3: resize cascade.  After set_attr_size(file, D, N) has returned "changed"
\* or "unchanged", get_attr_size reports N for D and for every attribute of
\* the file that is sized from D.
ResizeCascade ==
    [][(/\ ApiStep
        /\ call'.op = "RomeFileSetAttrSize"
        /\ call'.ret \in {RX_TRUE, RX_FALSE})
       => \A b \in SharingDim(call'.attr) :
             IsValidObject(b, FileObjType(call'.file))
                => SizeSeen(WorldNext, call'.file, b) = call'.idx]_vars

\* "DIM" has been resized to MaxSize with "A" live and "A" has followed.
ResizeCascade_Witness ==
    /\ call.op = "RomeFileSetAttrSize"
    /\ call.attr = "DIM"
    /\ call.idx = MaxSize
    /\ call.ret = RX_TRUE
    /\ attrId[call.file]["A"] # NullAttr
    /\ Len(attrVals[call.file]["A"]) = MaxSize
    /\ Len(attrVals[call.file]["DIM"]) = MaxSize

\* C4: round trip of the tokens.  A set_attr_value(file, P, "#INSERT", i) that
\* returns "changed" makes the size of P one more and keeps the values P had;
\* a set_attr_value(file, P, "#DELETE", i) that follows it at once returns
\* "changed" and makes the size one less again.
TokenRoundTrip ==
    [][(/\ ApiStep
        /\ call'.op = "RomeFileSetAttrValue"
        /\ IsValidUnits(call'.unit)
        /\ FileCheck("RomeFileSetAttrValue", call'.file) = NoErr)
       => LET f == call'.file
              p == call'.attr
              i == call'.idx
              old == SizeSeen(World, f, p)
              new == SizeSeen(WorldNext, f, p)
          IN /\ (call'.val = "#INSERT" /\ call'.ret = RX_TRUE)
                  => /\ new = old + 1
                     /\ \A k \in 0 .. (old - 1) :
                           ~GetListing(p).derived
                              => ValueHeld(WorldNext, f, p, IF k < i THEN k ELSE k + 1)
                                    = ValueHeld(World, f, p, k)
             /\ (/\ call'.val = "#DELETE"
                 /\ call.op = "RomeFileSetAttrValue"
                 /\ call.val = "#INSERT"
                 /\ call.ret = RX_TRUE
                 /\ IsValidUnits(call.unit)
                 /\ call.file = f /\ call.attr = p /\ call.idx = i)
                  => (call'.ret = RX_TRUE /\ new = old - 1)]_vars

\* "#DELETE" at index 1 of "A" has returned "changed" and left one row.
TokenRoundTrip_Witness ==
    /\ call.op = "RomeFileSetAttrValue"
    /\ call.attr = "A"
    /\ call.val = "#DELETE"
    /\ call.idx = 1
    /\ call.ret = RX_TRUE
    /\ Len(attrVals[call.file]["A"]) = 1

\* C5: idempotent resolution.  The handle of a live attribute stays the same
\* for as long as its file stays open; get_attr returns that handle; and a
\* get_attr that follows a successful get_attr of the same file and name
\* returns the same handle and creates nothing.
IdempotentResolution ==
    [][/\ \A f \in Files, a \in CatalogNames :
             (attrId[f][a] # NullAttr /\ fileValid'[f]) => attrId'[f][a] = attrId[f][a]
       /\ (ApiStep /\ call'.op = "RomeFileGetAttr" /\ call'.ptr # NullAttr)
             => call'.ptr = attrId'[call'.file][call'.attr]
       /\ (/\ ApiStep
           /\ call.op = "RomeFileGetAttr"
           /\ call.ptr # NullAttr
           /\ call'.op = "RomeFileGetAttr"
           /\ call'.file = call.file
           /\ call'.attr = call.attr)
             => (call'.ptr = call.ptr /\ UNCHANGED worldVars)]_vars

\* get_attr has returned the handle of "A" in a file that was closed and
\* opened again: the handle is not one of the first incarnation's.
IdempotentResolution_Witness ==
    /\ call.op = "RomeFileGetAttr"
    /\ call.attr = "A"
    /\ call.ptr # NullAttr
    /\ call.ptr = attrId[call.file]["A"]
    /\ opens = 2
    /\ romeRefs[call.file] = 1
    /\ call.ptr > 2

\* C6: catalog gating.  A get_attr on a live file that returns null has set
\* the thread's error text during the call: the wrong-object-type text when
\* the name is listed for other object types only, the not-found text when
\* the name is not listed.
CatalogGating ==
    (/\ call.op = "RomeFileGetAttr"
     /\ call.ptr = NullAttr
     /\ FileCheck("RomeFileGetAttr", call.file) = NoErr)
       => /\ call.errSet
          /\ lastError[MainThread] = NoAttrError("RomeFileGetAttr", call.attr, call.file)

\* The failure sentinel of each API function, as a test of a returned call.
FailureSentinel(c) ==
    IF c.op \in {"RomeExit", "RomeSetLastError"} THEN c.ret = RX_FALSE
    ELSE IF c.op \in {"RomeInit", "RomeGetLastError", "RomeFilesOpen", "RomeDatabaseFindOpen",
                      "RomeDatabaseFindInfo", "RomeFileGetAttrValue"} THEN c.str = NullPtr
    ELSE IF c.op = "RomeFileGetAttr" THEN c.ptr = NullAttr
    ELSE IF c.op \in {"RomeSetMessageCallback", "RomeDatabaseOpen", "RomeFileClose",
                      "RomeFileSetAttrValue", "RomeFileGetAttrSizeEx", "RomeFileSetAttrSize",
                      "RomeFileGetAttrSize",
                      "RomeDatabaseFindClose", "RomeFileGetAttrDimSize", "RomeFileSaveAsEx",
                      "RomeFileDelete"} THEN c.ret = RX_FAILURE
    ELSE IF c.op = "RomeEngineFinishUpdates" THEN c.ret = RX_FALSE
    ELSE IF c.op = "RomeFilesGetItem" THEN c.str = NullPtr
    ELSE FALSE

\* C7: closed stays closed.  Once RomeExit has closed the session, every call
\* that returns, RomeInit and RomeSetLastError with either session argument
\* included, returns its failure sentinel, and the session is never
\* initialised again.
ClosedStaysClosed ==
    [][(Exited(flags) /\ pc'[MainThread] = "idle")
          => /\ FailureSentinel(call')
             /\ Exited(flags')
             /\ initCount' = initCount]_vars

\* C8: init while open.  At most one session is ever created, whatever the
\* interleaving of the threads; and a RomeInit that finds the session open
\* returns the session handle and changes nothing of the session, its
\* command line included.
InitIdempotent ==
    [][/\ initCount' <= 1
       /\ \A t \in Threads :
             (/\ pc[t] = "check"
              /\ pc'[t] # pc[t]
              /\ HasFlag(flags, "DLLSTATE_INITROME")
              /\ ~Exited(flags))
                => /\ pc'[t] = "idle"
                   /\ call'.op = "RomeInit"
                   /\ call'.str = AppPtr
                   /\ UNCHANGED <<flags, commandLine, initCount, dbOpen, fileVars,
                                  worldVars, findOpen>>]_vars

\* A RomeInit has returned the open session although its arguments differ
\* from the command line the session was created with.
InitIdempotent_Witness ==
    /\ call.op = "RomeInit"
    /\ call.str = AppPtr
    /\ call.val # commandLine
    /\ initCount = 1

\* C9: fault containment.  No call lets an internal fault escape to its
\* caller: a call in whose body a fault is raised returns its failure sentinel.
NoFaultPropagates == ~call.escaped

\* C10: a call that returns its failure sentinel for a failed precondition, an
\* unknown attribute name, a wrong object type or an out-of-range index of a
\* find result set has set the thread's error text during the call.
FailureSetsError ==
    /\ (call.op = "RomeDatabaseFindInfo" /\ call.str = NullPtr) => call.errSet
    /\ (call.op = "RomeDatabaseFindOpen" /\ call.str = NullPtr) => call.errSet
    /\ (call.op = "RomeFileGetAttr" /\ call.ptr = NullAttr) => call.errSet
    /\ (call.op = "RomeFileGetAttrValue" /\ call.str = NullPtr /\ IsValidUnits(call.unit))
          => call.errSet
    /\ (/\ call.op = "RomeFileSetAttrValue"
        /\ call.ret = RX_FAILURE
        /\ (call.idx < 0 \/ ~GetListing(call.attr).listed
               \/ ~IsValidObject(call.attr, FileObjType(call.file))))
          => call.errSet
    /\ (call.op \in {"RomeFileClose", "RomeSetMessageCallback"} /\ call.ret = RX_FAILURE)
          => call.errSet
    /\ (call.op = "RomeExit" /\ call.ret = RX_FALSE) => call.errSet

\* What RomeGetLastError returns to thread u.
LastErrorSeen(u) == IF Exited(flags) THEN NullPtr ELSE lastError[u]

ErrorPerThread ==
    [][(call'.op = "RomeSetLastError" \/ call'.errSet)
          => \A u \in Threads \ {call'.thread} : LastErrorSeen(u)' = LastErrorSeen(u)]_vars

\* C12 witness: a call has failed on the second thread and recorded its error
\* while the first thread holds a different, non-empty string.
ErrorPerThread_Witness ==
    /\ call.thread # MainThread
    /\ call.errSet
    /\ lastError[call.thread] # ""
    /\ lastError[MainThread] = "a\nb"

\* The file, attribute and engine state the calls work on.
SharedState == <<fileValid, romeRefs, attrId, attrVals, stack>>

\* C13: call-level mutual exclusion.  A thread inside the body of a file call
\* holds the call-level lock until the call returns and no two threads are
\* inside such bodies at once; a call changes file, attribute or engine state
\* only while it holds the lock; and between a call's argument tests and its
\* return no other call changes that state, so the accesses of different
\* calls are serialized.
CallsSerialized ==
    [][/\ \A t \in Threads : pc[t] \in BodyPcs => apiLock = t
       /\ \A t, u \in Threads : (pc[t] \in BodyPcs /\ pc[u] \in BodyPcs) => t = u
       /\ \A t \in Threads :
             (pc[t] \in FileCallPcs /\ pc'[t] # pc[t] /\ apiLock # t)
                => SharedState' = SharedState
       /\ \A t \in Threads :
             (pc[t] \in FileCallPcs /\ pc'[t] = pc[t]) => SharedState' = SharedState]_vars

\* C14: reference counting.  A RomeFilesOpen or RomeFilesGetItem that returns
\* a file adds one to the file's count of outstanding references; a
\* RomeFileClose that passes its argument tests takes one from it, and while
\* the count it leaves is greater than 0 the file and its attributes stay as
\* they were; a RomeFileDelete that passes its argument tests releases the
\* file whatever the count is.
RefCounting ==
    [][ApiStep
         => /\ (call'.op \in {"RomeFilesOpen", "RomeFilesGetItem"} /\ call'.str # NullPtr)
                  => romeRefs'[call'.str] = romeRefs[call'.str] + 1
            /\ (call'.op = "RomeFileClose" /\ FileCheck("RomeFileClose", call'.file) = NoErr)
                  => /\ romeRefs'[call'.file] = romeRefs[call'.file] - 1
                     /\ romeRefs'[call'.file] > 0
                           => /\ fileValid'[call'.file]
                              /\ attrId'[call'.file] = attrId[call'.file]
                              /\ call'.ret # RX_TRUE
            /\ (call'.op = "RomeFileDelete" /\ call'.ret = RX_TRUE)
                  => /\ fileValid[call'.file]
                     /\ ~fileValid'[call'.file]
                     /\ attrId'[call'.file] = NoAttrs]_vars

\* C14 witness: the file was obtained twice, once through RomeFilesGetItem,
\* and one RomeFileClose has left it open with its attribute and a count of 1.
RefCounting_Witness ==
    /\ call.op = "RomeFileClose"
    /\ call.ret = RX_FALSE
    /\ opens = 2
    /\ romeRefs["f1"] = 1
    /\ fileValid["f1"]
    /\ attrId["f1"]["A"] # NullAttr

\* C15: the engine drain is invoked immediately before a dimension size is
\* returned, immediately before a value string is returned, immediately
\* before and immediately after a size change is applied by set_attr_size,
\* and immediately before save, with no engine-mutating step after it: when
\* one of these calls has returned a size, a value, a change result or a save
\* result, the update stack is empty.
DrainAtAccess ==
    [][ApiStep
         => /\ (call'.op = "RomeFileGetAttrDimSize" /\ call'.ret # RX_FAILURE)
                  => IsFinished(WorldNext)
            /\ (call'.op = "RomeFileGetAttrValue" /\ call'.idx >= 0 /\ call'.str # NullPtr)
                  => IsFinished(WorldNext)
            /\ (call'.op = "RomeFileSetAttrSize" /\ call'.ret # RX_FAILURE)
                  => IsFinished(WorldNext)
            /\ (call'.op = "RomeFileSaveAsEx" /\ call'.ret # RX_FAILURE)
                  => IsFinished(WorldNext)]_vars

\* C16: if draining cannot complete (the engine has met a fatal internal
\* error and the update stack is still not empty after finish updates), the
\* calling operation (get value, get size, set value, set size, save,
\* engine_finish_updates) returns its failure sentinel, and so returns no
\* value, size or change result computed from the undrained state.
DrainFailureFails ==
    [][(/\ ApiStep
        /\ engineFatal
        /\ ~IsFinished(World)
        /\ call'.op \in {"RomeFileGetAttrValue", "RomeFileGetAttrSizeEx",
                          "RomeFileGetAttrDimSize", "RomeFileSetAttrValue",
                          "RomeFileSetAttrSize", "RomeFileSaveAsEx",
                          "RomeEngineFinishUpdates"})
          => FailureSentinel(call')]_vars

\* C17: a set_attr_size that does not fail returns changed (1) if and only
\* if the size the attribute had differs from the requested size, and the
\* attribute then has the requested size; it returns unchanged (0) when the
\* sizes are equal, and then no row is inserted or deleted in any attribute.
SizeChangeResult ==
    [][(ApiStep /\ call'.op = "RomeFileSetAttrSize" /\ call'.ret # RX_FAILURE)
          => /\ call'.ret \in {RX_TRUE, RX_FALSE}
             /\ (call'.ret = RX_TRUE) <=> (SizeSeen(World, call'.file, call'.attr) # call'.idx)
             /\ SizeSeen(WorldNext, call'.file, call'.attr) = call'.idx
             /\ call'.ret = RX_FALSE
                   => \A b \in CatalogNames :
                         attrId[call'.file][b] # NullAttr
                            => Len(attrVals'[call'.file][b]) = Len(attrVals[call'.file][b])]_vars

\* C17 witness: "DIM" has two rows and a set_attr_size to 2 has returned
\* unchanged.
SizeChangeResult_Witness ==
    /\ call.op = "RomeFileSetAttrSize"
    /\ call.attr = "DIM"
    /\ call.idx = 2
    /\ call.ret = RX_FALSE
    /\ Len(attrVals[call.file]["DIM"]) = 2

\* C18: only dimensions marked user-resizable may be resized.  A set_attr_size
\* on an attribute that is not a dimension, or on a dimension that is not
\* marked user-resizable, or with a requested size of 0 or less, returns
\* failure (-1), and the size of no attribute of the file is changed by it.
ResizeRefused ==
    [][(/\ ApiStep
        /\ call'.op = "RomeFileSetAttrSize"
        /\ \/ ~GetListing(call'.attr).isDim
           \/ ~GetListing(call'.attr).canResize
           \/ call'.idx <= 0)
          => /\ call'.ret = RX_FAILURE
             /\ \A f \in Files, b \in CatalogNames :
                   /\ SizeSeen(WorldNext, f, b) = SizeSeen(World, f, b)
                   /\ (attrId[f][b] # NullAttr
                         => /\ attrId'[f][b] = attrId[f][b]
                            /\ Len(attrVals'[f][b]) = Len(attrVals[f][b]))]_vars

\* The fixed dimension was asked to take two rows and was refused, while the
\* resizable dimension of the same file has been resized to two rows.
ResizeRefused_Witness ==
    /\ call.op = "RomeFileSetAttrSize"
    /\ call.ret = RX_FAILURE
    /\ call.attr = "FDIM"
    /\ call.idx = 2
    /\ attrId[call.file]["FDIM"] # NullAttr
    /\ attrId[call.file]["DIM"] # NullAttr
    /\ Len(attrVals[call.file]["DIM"]) = 2
    /\ Len(attrVals[call.file]["FDIM"]) = 1

\* C19: operations run to completion or fail atomically.  Whenever
\* set_attr_size or set_attr_value returns failure (-1), a fault raised
\* part-way through the resize loop included, the sizes and values of all
\* attributes are exactly what they were before the call.
FailureAtomic ==
    [][(/\ ApiStep
        /\ call'.op \in {"RomeFileSetAttrSize", "RomeFileSetAttrValue"}
        /\ call'.ret = RX_FAILURE)
          => \A f \in Files, b \in CatalogNames :
                /\ SizeSeen(WorldNext, f, b) = SizeSeen(World, f, b)
                /\ \A i \in 0 .. (MaxSize - 1) :
                      ValueHeld(WorldNext, f, b, i) = ValueHeld(World, f, b, i)]_vars

\* C20: in get_attr_value an out-of-range index is a failure.  A call whose
\* index is at or beyond the size of the attribute returns the null failure
\* sentinel, never a non-null string, and no fault reaches the caller.
IndexOutOfRangeFails ==
    [][(/\ ApiStep
        /\ call'.op = "RomeFileGetAttrValue"
        /\ SizeSeen(World, call'.file, call'.attr) # RX_FAILURE
        /\ call'.idx >= SizeSeen(World, call'.file, call'.attr))
          => /\ call'.str = NullPtr
             /\ ~call'.escaped]_vars

\* C21: get_attr_value accepts an index that is 0 or more, or exactly -1.
\* With -1 it returns the attribute's current active index as a decimal
\* string instead of a value; with an index below -1 it returns the null
\* sentinel and has neither drained the engine nor created an attribute;
\* with an index of 0 or more the index test does not fail the call.
IndexContract ==
    [][(/\ ApiStep
        /\ call'.op = "RomeFileGetAttrValue")
          => /\ call'.idx < -1
                  => /\ call'.str = NullPtr
                     /\ call'.errSet
                     /\ UNCHANGED <<attrId, attrVals, nextId, stack>>
             /\ (/\ call'.idx >= -1
                 /\ FileCheck("RomeFileGetAttrValue", call'.file) = NoErr
                 /\ FindOrCreate(World, call'.attr, call'.file).p # NullAttr)
                  => /\ call'.idx = -1
                          => /\ call'.str = Int2Str(AttrGetIndex(WorldNext, call'.file, call'.attr))
                             /\ ~call'.errSet
                     /\ (call'.idx >= 0 /\ IsValidUnits(call'.unit))
                          => call'.str # NullPtr]_vars

\* A call with index -1 returned the current index of a live attribute.
IndexContract_Witness ==
    /\ call.op = "RomeFileGetAttrValue"
    /\ call.idx = -1
    /\ call.str = "0"
    /\ attrId[call.file][call.attr] # NullAttr

\* C22: find-set life cycle.  Between find_open and find_close, find_count
\* and find_info may be called in any order and any number of times: the
\* result set stays open, find_count returns the number n of records each
\* time, find_info(i) with 0 <= i < n returns the field of record i whatever
\* was asked before, and find_info with an index outside 0..n-1 returns the
\* null sentinel.
FindSetLifeCycle ==
    [][(/\ ApiStep
        /\ findOpen
        /\ call'.op \in {"RomeDatabaseFindCount", "RomeDatabaseFindInfo"})
          => /\ findOpen'
             /\ call'.op = "RomeDatabaseFindCount" => call'.ret = NumRecords
             /\ (call'.op = "RomeDatabaseFindInfo" /\ call'.idx \in 0 .. (NumRecords - 1))
                  => call'.str = "rec" \o ToString(call'.idx)
             /\ (call'.op = "RomeDatabaseFindInfo" /\ call'.idx \notin 0 .. (NumRecords - 1))
                  => call'.str = NullPtr]_vars

\* A find_info for the first record returned its field and left the result
\* set at that record.
FindSetLifeCycle_Witness ==
    /\ findOpen
    /\ call.op = "RomeDatabaseFindInfo"
    /\ call.idx = 0
    /\ call.str = "rec0"
    /\ findCursor = 0

ThreadAffinity ==
    [][(/\ useThreadIds
        /\ nThreadId # "none"
        /\ call'.op \in {"RomeDatabaseOpen", "RomeFilesOpen", "RomeFileGetAttrSize",
                          "RomeFileClose"}
        /\ pc[call'.thread] = "idle" /\ pc'[call'.thread] = "idle")
          => IF call'.thread = nThreadId
             THEN ~(call'.errSet /\ lastError'[call'.thread] = ThreadMsg(call'.op))
             ELSE /\ FailureSentinel(call')
                  /\ UNCHANGED <<sessionVars, fileVars, worldVars, findVars>>]_vars

\* C25: the short-returning get_attr_size returns the exact size of the
\* attribute when the size is at most the largest short (32767 in the
\* build, ShortMax here), and returns failure (-1) with an error text when
\* the size is greater; it never returns a truncated or wrapped size.
ShortSizeExact ==
    [][(/\ ApiStep
        /\ call'.op = "RomeFileGetAttrSize"
        /\ SizeSeen(World, call'.file, call'.attr) # RX_FAILURE)
          => IF SizeSeen(World, call'.file, call'.attr) <= ShortMax
             THEN /\ call'.ret = SizeSeen(World, call'.file, call'.attr)
                  /\ ~call'.errSet
             ELSE /\ call'.ret = RX_FAILURE
                  /\ call'.errSet]_vars

\* The size of a dimension that has more rows than a short holds was asked
\* for and refused.
ShortSizeExact_Witness ==
    /\ call.op = "RomeFileGetAttrSize"
    /\ call.ret = RX_FAILURE
    /\ call.errSet
    /\ attrId[call.file][call.attr] # NullAttr
    /\ Len(attrVals[call.file][call.attr]) > ShortMax

\* The commands "-k" or "+k" for k = first, first + nStep, ..., nCount of them.
RECURSIVE CmdRun(_, _, _, _)
CmdRun(sign, first, nStep, nCount) ==
    IF nCount <= 0 THEN ""
    ELSE sign \o ToString(first) \o CmdRun(sign, first + nStep, nStep, nCount - 1)

\* C26: the resize algorithm.  A set_attr_size that does not fail, on an
\* attribute of size old and with requested size new, issues exactly
\* |new - old| single-row resize commands and nothing else: when new < old,
\* deletes at the indices old-1, old-2, ..., new; when new > old, inserts at
\* the indices old, old+1, ..., new-1; when new = old, no command.  Each
\* delete is at the last row the attribute has at that moment and each insert
\* just after it, so the attribute ends with new rows.
ResizeAlgorithm ==
    [][(ApiStep /\ call'.op = "RomeFileSetAttrSize" /\ call'.ret # RX_FAILURE)
          => LET old == SizeSeen(World, call'.file, call'.attr)
                 new == call'.idx
             IN  /\ new < old => call'.str = CmdRun("-", old - 1, -1, old - new)
                 /\ new > old => call'.str = CmdRun("+", old, 1, new - old)
                 /\ new = old => call'.str = ""
                 /\ Len(attrVals'[call'.file][call'.attr]) = new]_vars

\* "DIM" had MaxSize rows and a set_attr_size to one row has deleted the rows
\* from the last one down to row 1.
ResizeAlgorithm_Witness ==
    /\ call.op = "RomeFileSetAttrSize"
    /\ call.attr = "DIM"
    /\ call.idx = 1
    /\ call.ret = RX_TRUE
    /\ call.str = CmdRun("-", MaxSize - 1, -1, MaxSize - 1)
    /\ Len(call.str) = 2 * (MaxSize - 1)

\* C27: set_attr_value keeps the three-way distinction.  A call with a
\* negative index, a null value, a value string longer than the maximum, an
\* unknown attribute name, an attribute of the wrong object type or an invalid
\* unit name returns failure (-1) and changes no size and no value; a call
\* returns unchanged (0) only when its value is valid and equal to the value
\* the attribute holds at the index.
SetValueThreeWay ==
    [][(ApiStep /\ call'.op = "RomeFileSetAttrValue")
          => /\ (\/ call'.idx < 0
                 \/ call'.val = NullPtr
                 \/ Len(call'.val) > MAX_SETSTR_SIZE
                 \/ ~GetListing(call'.attr).listed
                 \/ ~IsValidObject(call'.attr, FileObjType(call'.file))
                 \/ ~IsValidUnits(call'.unit))
                   => /\ call'.ret = RX_FAILURE
                      /\ \A f \in Files, b \in CatalogNames :
                            /\ SizeSeen(WorldNext, f, b) = SizeSeen(World, f, b)
                            /\ \A i \in 0 .. (MaxSize - 1) :
                                  ValueHeld(WorldNext, f, b, i) = ValueHeld(World, f, b, i)
             /\ call'.ret = RX_FALSE
                   => /\ IsValidValue(call'.attr, call'.val)
                      /\ IsValidUnits(call'.unit)
                      /\ ValueHeld(World, call'.file, call'.attr, call'.idx) = call'.val]_vars

\* C28: with reference counting, every successful get or open of a file
\* handle counts a reference.  When RomeFilesAdd, RomeFilesOpen or
\* RomeFilesGetItem returns a file, the file's count of outstanding references
\* is one more than before and at least 1, so that the calls that follow on
\* the handle pass the test of the reference count.
HandleCounted ==
    [][(/\ ApiStep
        /\ call'.op \in {"RomeFilesAdd", "RomeFilesOpen", "RomeFilesGetItem"}
        /\ call'.str # NullPtr)
          => /\ romeRefs'[call'.str] = romeRefs[call'.str] + 1
             /\ romeRefs'[call'.str] >= 1]_vars

\* C29: whenever RomeFileClose reaches the point where it closes the view, the
\* engine's stack of pending updates is empty (the assertion that the engine
\* is finished holds), after any calls made before, a set_attr_value or a
\* set_attr_size that returned just before the close included.
EngineFinishedAtClose ==
    [][(ApiStep /\ call'.op = "RomeFileClose" /\ call'.ret # RX_FAILURE)
          => IsFinished(World)]_vars

\* C30: get_float_array reads the values of the attribute only while the
\* engine's stack of pending updates is empty: whenever RomeFileGetFloatArray
\* has resolved the attribute and reads it, the engine is finished, also when
\* the resolution created the attribute and the creation scheduled a
\* recalculation.
FloatArrayReadsFinished ==
    [][(ApiStep /\ call'.op = "RomeFileGetFloatArray" /\ call'.ptr # NullAttr)
          => IsFinished(WorldNext)]_vars

\* A recalculation of attribute a of file f is pending.
TaskPending(st, f, a) == \E i \in 1 .. Len(st) : st[i] = <<f, a>>

\* C31: in set_attr_value the engine's update lock is held only while the
\* attribute is found or created.  On every exit of the call, a null result
\* and a fault during the creation included, the lock count is what it was at
\* entry; and the drain that follows the creation runs with the count at its
\* entry value: when the engine was not locked at entry and the call does not
\* fail, the recalculation that the creation scheduled has been run.
UpdateLockScoped ==
    [][(ApiStep /\ call'.op = "RomeFileSetAttrValue")
          => /\ lockCount' = lockCount
             /\ (lockCount = 0 /\ call'.ret # RX_FAILURE)
                   => ~TaskPending(stack', call'.file, call'.attr)]_vars

\* The engine was locked once by the caller, a set_attr_value met a fault
\* while it created its attribute, and the lock count is 1 after the call.
UpdateLockScoped_Witness ==
    /\ call.op = "RomeFileSetAttrValue"
    /\ call.ret = RX_FAILURE
    /\ call.attr = "A"
    /\ call.errSet
    /\ attrId[call.file]["A"] = NullAttr
    /\ lockCount = 1

\* C32: get_attr_size, get_attr_size_ex and get_attr_dim_size return -1 on
\* every error, a file that belongs to no valid session and a closed session
\* included; they never return 0 for an error.
SizeErrorIsFailure ==
    [][(/\ ApiStep
        /\ call'.op \in {"RomeFileGetAttrSize", "RomeFileGetAttrSizeEx",
                          "RomeFileGetAttrDimSize"}
        /\ call'.errSet)
          => call'.ret = RX_FAILURE]_vars

\* C33: files_open returns null only on failure.  Whenever the open that was
\* asked for succeeds, through the database or through any magic prefix,
\* "#FILESET:" included, the call returns a file handle that is not null and
\* whose reference count it has incremented.
OpenReturnsHandle ==
    [][(ApiStep /\ call'.op = "RomeFilesOpen" /\ call'.ret = RX_TRUE)
          => /\ call'.str = call'.file
             /\ romeRefs'[call'.file] = romeRefs[call'.file] + 1]_vars

DependenciesCycleSafe ==
    [][(ApiStep /\ call'.op = "RomeFilesGetDependencies")
          => /\ call'.val.walk.done
             /\ call'.val.walk.passes <= Cardinality(DepNames) + 1
             /\ \A n \in DepNames :
                   /\ call'.val.walk.closed[n] = call'.val.walk.opened[n]
                   /\ n # call'.file => call'.val.walk.opened[n] <= 1
                   /\ call'.val.walk.opened[n] <= 2]_vars

\* The walk has ended over a graph in which the root's dependency refers
\* back to the root, two other files refer to each other, and the root was
\* opened a second time.
DependenciesCycleSafe_Witness ==
    /\ call.op = "RomeFilesGetDependencies"
    /\ call.file = "f1"
    /\ "f1" \in call.val.graph["d2"]
    /\ "d3" \in call.val.graph["d2"]
    /\ "d2" \in call.val.graph["d3"]
    /\ call.val.walk.done
    /\ ~call.val.walk.null
    /\ call.val.walk.opened["f1"] = 2
    /\ call.val.walk.opened["d2"] = 1
    /\ call.val.walk.opened["d3"] = 1

\* C36: on success files_get_dependencies returns true with depsSize equal
\* to the number of distinct dependency file names it found and depsArray
\* holding exactly those names, each once; a root file that has no
\* dependency gives true with depsSize 0; a call that returns true after a
\* walk that completed is the only success.
DependenciesReturned ==
    [][(/\ ApiStep
        /\ call'.op = "RomeFilesGetDependencies"
        /\ ~call'.escaped
        /\ ~call'.val.walk.null
        /\ call'.val.walk.passes > 0)
          => /\ call'.ret = RX_TRUE
             /\ call'.idx = Cardinality({call'.val.walk.deps[k] :
                                            k \in 1 .. Len(call'.val.walk.deps)})
             /\ Len(call'.str) = call'.idx
             /\ {call'.str[k] : k \in 1 .. Len(call'.str)}
                  = {call'.val.walk.deps[k] : k \in 1 .. Len(call'.val.walk.deps)}]_vars

\* C37: under any interleaving of the calls of several threads a file's
\* reference count never becomes negative and no decrement is lost: every
\* decrement that file_close makes lowers the count by one from the value it
\* has at that moment, and the count it leaves is not below 0.
RefCountAtomic ==
    [][/\ \A f \in Files : romeRefs'[f] >= 0
       /\ \A t \in Threads :
             (pc[t] = "close.write" /\ pc'[t] = "close.lock")
                => romeRefs'[pending[t].file] = romeRefs[pending[t].file] - 1]_vars

\* C38: once exit has completed no other call runs its lock-protected body.
\* A call that passed its closed-session test before the exit and acquires
\* the call-level lock after it returns its failure sentinel with an error
\* and leaves the session state as it is.
NoBodyAfterExit ==
    [][\A t \in Threads :
          (pc[t] \in BodyPcs /\ pc'[t] = "idle" /\ Exited(flags))
             => /\ call'.ret = RX_FAILURE
                /\ call'.errSet
                /\ WorldNext = World]_vars

\* C39: the call-level lock never causes deadlock and is never left held.
\* A thread that is in no call holds neither the call-level lock nor the
\* init critical section; the lock is held as often as the calls in progress
\* of its holder have taken it; and every call that has begun returns, so
\* every thread that waits for the lock enters.
LockDepthAt(p) ==
    IF p \in {"getf.inner.body"} THEN 2
    ELSE IF p \in {"body", "set.body", "close.body", "getf.call", "getf.inner.lock", "getf.copy"}
    THEN 1 ELSE 0

LockBalanced ==
    /\ \A t \in Threads : pc[t] = "idle" => (apiLock # t /\ initCS # t)
    /\ apiLock = "none" <=> apiDepth = 0
    /\ \A t \in Threads : apiLock = t => apiDepth = LockDepthAt(pc[t])
    /\ \A t \in Threads : apiLock # t => LockDepthAt(pc[t]) = 0

ReadDrainsUnderLock ==
    [][(/\ ApiStep
        /\ call'.op \in {"RomeFileGetAttrValue", "RomeFileGetAttrSize"}
        /\ ~call'.errSet
        /\ lockCount > 0)
          => IsFinished(WorldNext)]_vars

====
